---- MODULE Spec2Model ----
(***************************************************************************)
(* Model of the cataloging/indexing engine under src/indexer/new:          *)
(* the relational catalog (db/schema.py, db/operations.py), the identity   *)
(* helpers (core_utils.py), the per-category indexers (file_indexers/),    *)
(* the extraction invoker (extraction_manager.py), the relationship        *)
(* recorder (relationship_builder.py) and the two-pass orchestrator        *)
(* (processing_orchestrator.py).                                           *)
(*                                                                         *)
(* Conventions.  Python None is the empty tuple.  A file extension is the  *)
(* string after the dot ("txt" for ".txt", "" for no extension).  A path   *)
(* is a record [dir, stem, ext]; a file on disk adds the root it lives     *)
(* under ("src" for STR_INPUT_DIR, "out" for OUTPUT_BASE_DIR).  A digest   *)
(* is a pair <<first 16 characters, remainder>>.                           *)
(***************************************************************************)
EXTENDS Integers, Sequences, FiniteSets, TLC

VARIABLES
    tree,         \* the files under STR_INPUT_DIR
    decode,       \* image file -> what decoding it for perceptual hashing does
    tables,       \* category table name -> set of file rows
    rels,         \* relationship table name -> set of edge rows
    content,      \* source file -> version of its bytes
    unreadable,   \* source files whose bytes cannot be read
    toolOutcome,  \* archive -> what the extraction tool does for it
    outdir,       \* archive -> state of its extraction output directory
    phase,        \* position of run_processing_passes
    run,          \* number of runs started
    todo,         \* root files the Pass 1 walk has not yielded yet
    todoStr,      \* archives the Pass 2 walk has not yielded yet
    cur,          \* archive being processed in Pass 2
    parent_str_uuid,  \* identity key of cur
    todoOut,      \* extracted files the content walk has not yielded yet
    details,      \* indexed_content_details of the current extraction
    hist,         \* observations of the current and the previous run
    lastCall      \* the last direct call of a catalog operation

vars == <<tree, decode, tables, rels, content, unreadable, toolOutcome, outdir, phase, run,
          todo, todoStr, cur, parent_str_uuid, todoOut, details, hist, lastCall>>

None == <<>>

\* str.lower() on the extensions written here in another letter case
UpperCased == ("BLEND" :> "blend") @@ ("GLB" :> "glb")
lower(ext) == IF ext \in DOMAIN UpperCased THEN UpperCased[ext] ELSE ext

(***************************************************************************)
(* config.py                                                               *)
(***************************************************************************)
MAX_DB_RETRIES == 5
RETRY_DELAY_SEC == 1

EXT_GROUPS ==
    ("str" :> "Archive_root") @@ ("preinstanced" :> "models_source") @@
    ("blend" :> "models_blend") @@ ("glb" :> "models_glb") @@
    ("fbx" :> "models_fbx") @@ ("txd" :> "texture_dictionary") @@
    ("vp6" :> "video_source") @@ ("snu" :> "audio_source") @@
    ("mus" :> "audio_other") @@ ("lua" :> "other") @@ ("bin" :> "other") @@
    ("txt" :> "other") @@ ("dds" :> "textures_dds") @@ ("wav" :> "audio_wav") @@
    ("ogv" :> "video_ogv")

\* config.EXT_GROUPS.get(ext, default)
GroupOf(ext, default) == IF ext \in DOMAIN EXT_GROUPS THEN EXT_GROUPS[ext] ELSE default

(***************************************************************************)
(* db/schema.py                                                            *)
(***************************************************************************)
specific_mappings ==
    ("Archive_root" :> "str_index") @@ ("models_source" :> "preinstanced_index") @@
    ("models_blend" :> "blend_index") @@ ("models_glb" :> "glb_index") @@
    ("models_fbx" :> "fbx_index") @@ ("textures_dds" :> "dds_index") @@
    ("texture_dictionary" :> "txd_index") @@ ("video_source" :> "video_index") @@
    ("audio_source" :> "snu_index") @@ ("audio_other" :> "mus_index") @@
    ("other" :> "other_files_index") @@ ("unknown" :> "unknown_files_index") @@
    ("audio_wav" :> "audio_wav_index") @@ ("video_ogv" :> "video_ogv_index")

TableNameFor(sanitized_ext) ==
    \* group_name = config.EXT_GROUPS.get(ext): absent for an unlisted extension
    IF sanitized_ext \in DOMAIN EXT_GROUPS /\ EXT_GROUPS[sanitized_ext] \in DOMAIN specific_mappings
        THEN specific_mappings[EXT_GROUPS[sanitized_ext]]
    ELSE IF sanitized_ext \in DOMAIN specific_mappings THEN specific_mappings[sanitized_ext]
    ELSE specific_mappings["unknown"]

get_table_name_for_ext(ext) == TableNameFor(lower(ext))

\* the category tables initialize_database creates
FileTables ==
    {get_table_name_for_ext(e) : e \in DOMAIN EXT_GROUPS}
        \cup {get_table_name_for_ext("unknown_ext_placeholder_for_table_name_logic")}

\* the relationship tables create_relationship_tables creates, with the
\* columns of their UNIQUE constraint
UniqueCols ==
    ("str_content_relationship" :> {"str_uuid", "content_file_uuid", "content_file_table"}) @@
    ("txd_dds_relationship" :> {"txd_uuid", "dds_uuid"}) @@
    ("blend_preinstanced_relationship" :> {"blend_uuid", "preinstanced_uuid"}) @@
    ("model_export_blend_relationship" :> {"exported_model_uuid", "blend_uuid"})

RelTables == DOMAIN UniqueCols

\* FOREIGN KEY (column) REFERENCES table(uuid); PRAGMA foreign_keys = ON
ForeignKeys ==
    ("str_content_relationship" :> {<<"str_uuid", "str_index">>}) @@
    ("txd_dds_relationship" :> {<<"txd_uuid", "txd_index">>, <<"dds_uuid", "dds_index">>}) @@
    ("blend_preinstanced_relationship" :>
        {<<"blend_uuid", "blend_index">>, <<"preinstanced_uuid", "preinstanced_index">>}) @@
    ("model_export_blend_relationship" :> {<<"blend_uuid", "blend_index">>})

\* the catalog after initialize_database on a new datastore
EmptyDb == [tables |-> [t \in FileTables |-> {}], rels |-> [r \in RelTables |-> {}]]

(***************************************************************************)
(* One execution of a statement by sqlite: the error it raises ("none"     *)
(* when it succeeds), the catalog afterwards and the row it fetches.       *)
(***************************************************************************)
\* the file tables created without UNIQUE on source_path
UuidOnlyViolation(db, stmt) ==
    IF stmt.kind = "INSERT_FILE"
        THEN \E r \in db.tables[stmt.table] : r.uuid = stmt.data.uuid
        ELSE \E r \in db.rels[stmt.table] :
                \A c \in UniqueCols[stmt.table] : r[c] = stmt.data[c]

UniqueViolation(db, stmt) ==
    IF stmt.kind = "INSERT_FILE"
        THEN \E r \in db.tables[stmt.table] :
                r.uuid = stmt.data.uuid \/ r.source_path = stmt.data.source_path
        ELSE \E r \in db.rels[stmt.table] :
                \A c \in UniqueCols[stmt.table] : r[c] = stmt.data[c]

ForeignKeyViolation(db, stmt) ==
    /\ stmt.kind = "INSERT_REL"
    /\ \E fk \in ForeignKeys[stmt.table] :
          \A r \in db.tables[fk[2]] : r.uuid # stmt.data[fk[1]]

\* id INTEGER PRIMARY KEY AUTOINCREMENT: the row as stored
Stored(rows, data) == [id |-> Cardinality(rows) + 1] @@ data

\* INSERT OR REPLACE in place of INSERT
RunStatementReplace(db, stmt) ==
    IF stmt.kind = "INSERT_FILE" THEN
        IF stmt.table \notin DOMAIN db.tables
            THEN [exc |-> "OperationalError", db |-> db, row |-> None]
        ELSE LET old == {r \in db.tables[stmt.table] :
                            r.uuid = stmt.data.uuid \/ r.source_path = stmt.data.source_path}
             IN  [exc |-> "none", row |-> None,
                  db |-> [db EXCEPT !.tables[stmt.table] =
                                       (@ \ old) \cup {Stored(@, stmt.data)}]]
    ELSE IF stmt.kind = "INSERT_REL" THEN
        IF stmt.table \notin DOMAIN db.rels
            THEN [exc |-> "OperationalError", db |-> db, row |-> None]
        ELSE IF UniqueViolation(db, stmt) \/ ForeignKeyViolation(db, stmt)
            THEN [exc |-> "IntegrityError", db |-> db, row |-> None]
        ELSE [exc |-> "none", row |-> None,
              db |-> [db EXCEPT !.rels[stmt.table] = @ \cup {Stored(@, stmt.data)}]]
    ELSE
        IF stmt.table \notin DOMAIN db.tables
            THEN [exc |-> "OperationalError", db |-> db, row |-> None]
        ELSE LET hit == {r \in db.tables[stmt.table] : r.source_path = stmt.data} IN
             [exc |-> "none", db |-> db,
              row |-> IF hit = {} THEN None ELSE (CHOOSE r \in hit : TRUE).uuid]

RunStatement(db, stmt) ==
    IF stmt.kind = "INSERT_FILE" THEN
        IF stmt.table \notin DOMAIN db.tables
            THEN [exc |-> "OperationalError", db |-> db, row |-> None]
        ELSE IF UniqueViolation(db, stmt)
            THEN [exc |-> "IntegrityError", db |-> db, row |-> None]
        ELSE [exc |-> "none", row |-> None,
              db |-> [db EXCEPT !.tables[stmt.table] = @ \cup {Stored(@, stmt.data)}]]
    ELSE IF stmt.kind = "INSERT_REL" THEN
        IF stmt.table \notin DOMAIN db.rels
            THEN [exc |-> "OperationalError", db |-> db, row |-> None]
        ELSE IF UniqueViolation(db, stmt) \/ ForeignKeyViolation(db, stmt)
            THEN [exc |-> "IntegrityError", db |-> db, row |-> None]
        ELSE [exc |-> "none", row |-> None,
              db |-> [db EXCEPT !.rels[stmt.table] = @ \cup {Stored(@, stmt.data)}]]
    ELSE \* SELECT uuid FROM table WHERE source_path = ?
        IF stmt.table \notin DOMAIN db.tables
            THEN [exc |-> "OperationalError", db |-> db, row |-> None]
        ELSE LET hit == {r \in db.tables[stmt.table] : r.source_path = stmt.data} IN
             [exc |-> "none", db |-> db,
              row |-> IF hit = {} THEN None ELSE (CHOOSE r \in hit : TRUE).uuid]

(***************************************************************************)
(* Contention on the datastore by another process: the next `delay`        *)
(* statement attempts find the store free, the `len` attempts after them   *)
(* find it locked.                                                         *)
(***************************************************************************)
Locked(lock) == lock.delay = 0 /\ lock.len > 0

Tick(lock) ==
    IF lock.delay > 0 THEN [lock EXCEPT !.delay = @ - 1]
    ELSE IF lock.len > 0 THEN [lock EXCEPT !.len = @ - 1]
    ELSE lock

(***************************************************************************)
(* db/operations.py                                                        *)
(* A context ctx = [db, lock, log] is threaded through the calls: the      *)
(* catalog, the contention still to come and the trace of every statement  *)
(* executed so far.                                                        *)
(***************************************************************************)
\* the trace of one statement: the outcome of each attempt ("locked", or the
\* error the execution raised, "none" when it succeeded), the sleeps between
\* the attempts, and whether it went through _execute_with_retry
Trace(stmt, outcomes, sleeps, retried) ==
    [kind |-> stmt.kind, outcomes |-> outcomes, sleeps |-> sleeps, viaRetry |-> retried]

\* whether the loop goes round again after a locked attempt
MayRetry(attempt) == attempt < MAX_DB_RETRIES - 1

\* the same sleep before every retry
FixedDelay(attempt) == RETRY_DELAY_SEC

\* time.sleep(config.RETRY_DELAY_SEC * (attempt + 1))
RetryDelay(attempt) == RETRY_DELAY_SEC * (attempt + 1)

\* the rows a statement has written: those of `after` that `before` lacks
Writes(before, after) ==
    UNION {{<<"tables", t, r>> : r \in after.tables[t] \ before.tables[t]} : t \in DOMAIN after.tables}
    \cup UNION {{<<"rels", t, r>> : r \in after.rels[t] \ before.rels[t]} : t \in DOMAIN after.rels}

\* conn.commit(): the writes of the open transaction become durable
commit(ctx) == [ctx EXCEPT !.pending = {}]

\* conn.rollback(): the writes of the open transaction are undone
rollback(ctx) ==
    [ctx EXCEPT !.db = [tables |-> [t \in DOMAIN @.tables |->
                                       {r \in @.tables[t] : <<"tables", t, r>> \notin ctx.pending}],
                        rels |-> [t \in DOMAIN @.rels |->
                                       {r \in @.rels[t] : <<"rels", t, r>> \notin ctx.pending}]],
                !.pending = {}]

\* a statement nobody commits
NeverCommits(stmt) == FALSE

\* commit=True in the call of _execute_with_retry (lines 86 and 129)
Commits(stmt) == stmt.kind \in {"INSERT_FILE", "INSERT_REL"}

\* lines 13-14 and 21-43: commit when asked to, rollback before any raise
Ended(stmt, exc, ctx) ==
    IF exc # "none" THEN rollback(ctx)
    ELSE IF Commits(stmt) THEN commit(ctx)
    ELSE ctx

\* lines 12-18: the attempt r that found the store free ends the loop
Attempted(ctx, stmt, outcomes, sleeps, r) ==
    [exc |-> r.exc, row |-> r.row,
     ctx |-> Ended(stmt, r.exc,
                   [db |-> r.db, lock |-> Tick(ctx.lock),
                    log |-> Append(ctx.log, Trace(stmt, Append(outcomes, r.exc), sleeps, TRUE)),
                    pending |-> ctx.pending \cup Writes(ctx.db, r.db)])]

RECURSIVE RetryLoop(_, _, _, _, _)
RetryLoop(ctx, stmt, attempt, outcomes, sleeps) ==
    IF Locked(ctx.lock) THEN
        IF MayRetry(attempt)
            THEN RetryLoop([ctx EXCEPT !.lock = Tick(@)], stmt, attempt + 1,
                           Append(outcomes, "locked"), Append(sleeps, RetryDelay(attempt)))
            ELSE [exc |-> "OperationalError", row |-> None,
                  ctx |-> rollback([ctx EXCEPT !.lock = Tick(@),
                                        !.log = Append(@, Trace(stmt, Append(outcomes, "locked"),
                                                                sleeps, TRUE))])]
    ELSE Attempted(ctx, stmt, outcomes, sleeps, RunStatement(ctx.db, stmt))

execute_with_retry(ctx, stmt) == RetryLoop(ctx, stmt, 0, <<>>, <<>>)

\* lines 50-54: the uuid of the row fetched, None when there is none or
\* when the SELECT raised
FetchedUuid(sel) == [ret |-> IF sel.exc = "none" THEN sel.row ELSE None, ctx |-> sel.ctx]

get_file_uuid_by_path(ctx, table_name, source_path) ==
    FetchedUuid(execute_with_retry(ctx,
        [kind |-> "SELECT_UUID_BY_PATH", table |-> table_name, data |-> source_path]))

\* lines 101-109: the SELECT by uuid, executed on the cursor without retry
SelectPathByUuid(ctx, table_name, uuid) ==
    LET stmt == [kind |-> "SELECT_PATH_BY_UUID"] IN
    IF Locked(ctx.lock)
        THEN [found |-> FALSE,
              ctx |-> [ctx EXCEPT !.lock = Tick(@),
                           !.log = Append(@, Trace(stmt, <<"locked">>, <<>>, FALSE))]]
        ELSE [found |-> \E r \in ctx.db.tables[table_name] : r.uuid = uuid,
              ctx |-> [ctx EXCEPT !.lock = Tick(@),
                           !.log = Append(@, Trace(stmt, <<"none">>, <<>>, FALSE))]]

\* lines 104-112: the record's own key when a row holds it, else None
ConflictByUuid(byUuid, data) ==
    [ret |-> IF byUuid.found THEN data.uuid ELSE None, raised |-> FALSE, ctx |-> byUuid.ctx]

\* lines 93-103: the key found by location, else the lookup by key
ConflictByPath(byPath, table_name, data) ==
    IF byPath.ret # None THEN [ret |-> byPath.ret, raised |-> FALSE, ctx |-> byPath.ctx]
    ELSE ConflictByUuid(SelectPathByUuid(byPath.ctx, table_name, data.uuid), data)

\* what insert_file_entry does once the INSERT has raised IntegrityError
ResolveConflict(ctx, table_name, data) ==
    ConflictByPath(get_file_uuid_by_path(ctx, table_name, data.source_path), table_name, data)

\* what insert_file_entry does with an sqlite3.Error that is no IntegrityError
FileInsertFailed(ctx) == [ret |-> None, raised |-> FALSE, ctx |-> ctx]

\* lines 85-115: the try block around the INSERT ins
FileInserted(ins, table_name, data) ==
    IF ins.exc = "none" THEN [ret |-> data.uuid, raised |-> FALSE, ctx |-> ins.ctx]
    ELSE IF ins.exc = "IntegrityError" THEN ResolveConflict(ins.ctx, table_name, data)
    ELSE FileInsertFailed(ins.ctx)

insert_file_entry(ctx, table_name, data) ==
    IF "source_path" \notin DOMAIN data \/ "uuid" \notin DOMAIN data
        THEN [ret |-> None, raised |-> FALSE, ctx |-> ctx]
    ELSE FileInserted(execute_with_retry(ctx,
             [kind |-> "INSERT_FILE", table |-> table_name, data |-> data]), table_name, data)

\* False for an edge that was already there
RelExistsFalse == FALSE

\* the value insert_relationship_entry returns when the INSERT raised IntegrityError
RelExistsResult == TRUE

\* the try block without its except clause for IntegrityError
EdgeInsertedUnguarded(ins) ==
    IF ins.exc = "none" THEN [ret |-> TRUE, raised |-> FALSE, ctx |-> ins.ctx]
    ELSE IF ins.exc = "IntegrityError" THEN [ret |-> None, raised |-> TRUE, ctx |-> ins.ctx]
    ELSE [ret |-> FALSE, raised |-> FALSE, ctx |-> ins.ctx]

\* lines 128-137: the try block around the INSERT ins
EdgeInserted(ins) ==
    IF ins.exc = "none" THEN [ret |-> TRUE, raised |-> FALSE, ctx |-> ins.ctx]
    ELSE IF ins.exc = "IntegrityError" THEN [ret |-> RelExistsResult, raised |-> FALSE, ctx |-> ins.ctx]
    ELSE [ret |-> FALSE, raised |-> FALSE, ctx |-> ins.ctx]

insert_relationship_entry(ctx, relationship_table_name, data) ==
    EdgeInserted(execute_with_retry(ctx,
        [kind |-> "INSERT_REL", table |-> relationship_table_name, data |-> data]))

(***************************************************************************)
(* core_utils.py                                                           *)
(***************************************************************************)
\* the bytes of a file, named by where they come from and their version: a
\* source file has the version `content` gives it, an extracted file the
\* bytes the archive holds for it
FileBytes(f) == <<f.root, f.dir, f.stem, f.ext, IF f.root = "src" THEN content[f] ELSE 1>>

\* hashlib.sha256 over the bytes, as <<first 16 characters, remainder>>
Sha256(bytes) == <<<<"sha256", bytes>>, "rest">>

\* a digest whatever happens when the file is read
sha256_file_unchecked(f) == Sha256(FileBytes(f))

sha256_file(f) == IF f \in unreadable THEN None ELSE Sha256(FileBytes(f))

md5_string(s) == <<<<"md5", s>>, "rest">>

generate_uuid_from_content(file_hash, path_hash) == <<file_hash[1], file_hash[1]>>

\* f"{file_hash[:16]}_{path_hash[:16]}"
generate_uuid(file_hash, path_hash) == <<file_hash[1], path_hash[1]>>

\* the path of a file relative to a base directory; the absolute path when
\* the file is not under the base
get_relative_path(f, base) ==
    IF f.root = base THEN [dir |-> f.dir, stem |-> f.stem, ext |-> f.ext] ELSE f

(***************************************************************************)
(* file_indexers/                                                          *)
(***************************************************************************)
FileRow(f, rel_path_for_db, file_hash, path_hash, group_name) ==
    [uuid |-> generate_uuid(file_hash, path_hash),
     source_file_name |-> <<f.stem, f.ext>>,
     source_path |-> rel_path_for_db,
     file_hash |-> file_hash,
     path_hash |-> path_hash,
     group_name |-> group_name]

\* the body the three indexers share: hash, derive the key, insert
HashAndInsert(ctx, f, rel_path_for_db, table_name, group_name) ==
    LET file_hash == sha256_file(f) IN
    IF file_hash = None THEN [ret |-> None, raised |-> FALSE, ctx |-> ctx]
    ELSE insert_file_entry(ctx, table_name,
             FileRow(f, rel_path_for_db, file_hash, md5_string(rel_path_for_db), group_name))

\* a perceptual hash of the decoded image
ImageHash(kind, f) == <<kind, FileBytes(f)>>

NoImageHashes ==
    [phash |-> None, dhash |-> None, ahash |-> None,
     color_phash |-> None, color_dhash |-> None, color_ahash |-> None]

\* the six hashes; those of an image that cannot be opened are all None,
\* those of an image that cannot be converted to RGB keep the grayscale ones
calculate_image_hashes(f) ==
    IF decode[f] = "unidentified" THEN NoImageHashes
    ELSE IF decode[f] = "gray_only"
        THEN [NoImageHashes EXCEPT !.phash = ImageHash("phash", f),
                                   !.dhash = ImageHash("dhash", f),
                                   !.ahash = ImageHash("ahash", f)]
    ELSE [phash |-> ImageHash("phash", f), dhash |-> ImageHash("dhash", f),
          ahash |-> ImageHash("ahash", f), color_phash |-> ImageHash("color_phash", f),
          color_dhash |-> ImageHash("color_dhash", f),
          color_ahash |-> ImageHash("color_ahash", f)]

\* index_dds_file that gives up on an image it cannot hash perceptually
index_dds_file_strict(ctx, f, rel_path_for_db) ==
    LET file_hash == sha256_file(f) IN
    IF file_hash = None \/ calculate_image_hashes(f) = NoImageHashes
        THEN [ret |-> None, raised |-> FALSE, ctx |-> ctx]
    ELSE insert_file_entry(ctx, get_table_name_for_ext("dds"),
             FileRow(f, rel_path_for_db, file_hash, md5_string(rel_path_for_db),
                     GroupOf("dds", "textures_dds")) @@ calculate_image_hashes(f))

index_dds_file(ctx, f, rel_path_for_db) ==
    LET file_hash == sha256_file(f) IN
    IF file_hash = None THEN [ret |-> None, raised |-> FALSE, ctx |-> ctx]
    ELSE insert_file_entry(ctx, get_table_name_for_ext("dds"),
             FileRow(f, rel_path_for_db, file_hash, md5_string(rel_path_for_db),
                     GroupOf("dds", "textures_dds")) @@ calculate_image_hashes(f))

index_str_archive(ctx, f, rel_path_for_db) ==
    HashAndInsert(ctx, f, rel_path_for_db, get_table_name_for_ext("str"),
                  GroupOf("str", "audio_root"))

\* a container file handed to the generic indexer is refused
index_generic_file_refusing(ctx, f, rel_path_for_db, file_ext, group_name) ==
    LET table_name == get_table_name_for_ext(file_ext) IN
    IF table_name = get_table_name_for_ext("dds") THEN index_dds_file(ctx, f, rel_path_for_db)
    ELSE IF table_name = get_table_name_for_ext("str") THEN [ret |-> None, ctx |-> ctx]
    ELSE HashAndInsert(ctx, f, rel_path_for_db, table_name, group_name)

index_generic_file(ctx, f, rel_path_for_db, file_ext, group_name) ==
    LET table_name == get_table_name_for_ext(file_ext) IN
    IF table_name = get_table_name_for_ext("dds") THEN index_dds_file(ctx, f, rel_path_for_db)
    ELSE IF table_name = get_table_name_for_ext("str") THEN index_str_archive(ctx, f, rel_path_for_db)
    ELSE HashAndInsert(ctx, f, rel_path_for_db, table_name, group_name)

(***************************************************************************)
(* The files on disk.  The source tree holds a text file, a texture        *)
(* dictionary with one image in its sibling folder, and two archives; the  *)
(* first archive holds a scene source and an export of it, the second a    *)
(* text file.                                                              *)
(***************************************************************************)
SrcFile(dir, stem, ext) == [root |-> "src", dir |-> dir, stem |-> stem, ext |-> ext]

FileR == SrcFile(<<>>, "r", "txt")
FileT == SrcFile(<<>>, "t", "txd")
FileI == SrcFile(<<"t_txd">>, "i", "dds")
ArchiveA == SrcFile(<<>>, "A", "str")
ArchiveB == SrcFile(<<>>, "B", "str")

SrcTree == {FileR, FileT, FileI, ArchiveA, ArchiveB}

\* an archive that holds a text file and an image
ArchiveC == SrcFile(<<>>, "C", "str")

\* a file without an extension
FileN == SrcFile(<<>>, "README", "")

\* a source tree that holds one archive with an image and a text file
TreeImageText == {ArchiveC}

\* a source tree with loose files, one of them without an extension, and
\* an archive
TreeLoose == {FileR, FileN, ArchiveB}

\* an archive that holds a scene source and an .fbx export of it
ArchiveX == SrcFile(<<>>, "X", "str")

\* the source trees that hold one archive with a scene source and an export
\* of it at the same relative path
TreePair == {{ArchiveA}, {ArchiveX}}

\* an archive that holds a scene source, an export of it whose extension is
\* written in capitals, and an export of the same name in another directory
ArchiveD == SrcFile(<<>>, "D", "str")

\* an archive that holds a scene source whose extension is written in
\* capitals and an export beside it
ArchiveY == SrcFile(<<>>, "Y", "str")

\* the source trees whose archive holds files that match only in part
TreeNear == {{ArchiveD}, {ArchiveY}}

\* a scene source in the source tree itself, an archive that holds a scene
\* source and an archive that holds an export, all three at the relative
\* path m.<extension>
FileM == SrcFile(<<>>, "m", "blend")
ArchiveE == SrcFile(<<>>, "E", "str")
ArchiveF == SrcFile(<<>>, "F", "str")
TreeCross == {FileM, ArchiveE, ArchiveF}

\* a texture dictionary with two images in its sibling folder
FileJ == SrcFile(<<"t_txd">>, "j", "dds")
TreeDictionary == {FileT, FileI, FileJ}

\* a source tree with two files whose extensions config.EXT_GROUPS does not
\* list, one of them spelling a key of specific_mappings
FileO == SrcFile(<<>>, "o", "other")
FileZ == SrcFile(<<>>, "z", "xyz")
TreeUnlisted == {FileO, FileZ}

\* an archive that holds a sound source and the .wav made of it
ArchiveS == SrcFile(<<>>, "S", "str")
TreeSound == {ArchiveS}

\* an archive that holds another archive and a text file
ArchiveP == SrcFile(<<>>, "P", "str")
TreeNested == {ArchiveP}

\* a scene source of the source tree under A_str/, where the output of A.str
\* goes under the output root, beside the archive A.str itself
FileQ == SrcFile(<<"A_str">>, "m", "blend")
TreeShadow == {FileQ, ArchiveA}

\* the small source trees
SceneTrees ==
    {TreeImageText, TreeLoose, TreeCross, TreeDictionary, TreeUnlisted, TreeSound, TreeNested,
     TreeShadow}
        \cup TreePair \cup TreeNear

Archives == {f \in tree : lower(f.ext) = "str"}

\* the files an archive holds, by their path inside the archive
ArchiveMembers(a) ==
    IF a = ArchiveA
        THEN {[dir |-> <<>>, stem |-> "m", ext |-> "blend"], [dir |-> <<>>, stem |-> "m", ext |-> "glb"]}
    ELSE IF a = ArchiveX
        THEN {[dir |-> <<"x">>, stem |-> "m", ext |-> "blend"], [dir |-> <<"x">>, stem |-> "m", ext |-> "fbx"]}
    ELSE IF a = ArchiveC
        THEN {[dir |-> <<>>, stem |-> "n", ext |-> "txt"], [dir |-> <<>>, stem |-> "p", ext |-> "dds"]}
    ELSE IF a = ArchiveD
        THEN {[dir |-> <<"a">>, stem |-> "b", ext |-> "blend"], [dir |-> <<"a">>, stem |-> "b", ext |-> "GLB"],
              [dir |-> <<"c">>, stem |-> "b", ext |-> "glb"]}
    ELSE IF a = ArchiveE
        THEN {[dir |-> <<>>, stem |-> "m", ext |-> "blend"]}
    ELSE IF a = ArchiveF
        THEN {[dir |-> <<>>, stem |-> "m", ext |-> "glb"]}
    ELSE IF a = ArchiveY
        THEN {[dir |-> <<>>, stem |-> "m", ext |-> "BLEND"], [dir |-> <<>>, stem |-> "m", ext |-> "glb"]}
    ELSE IF a = ArchiveP
        THEN {[dir |-> <<>>, stem |-> "q", ext |-> "str"], [dir |-> <<>>, stem |-> "n", ext |-> "txt"]}
    ELSE IF a = ArchiveS
        THEN {[dir |-> <<>>, stem |-> "s", ext |-> "snu"], [dir |-> <<>>, stem |-> "s", ext |-> "wav"]}
    ELSE {[dir |-> <<>>, stem |-> "n", ext |-> "txt"]}

\* the members a failing extraction has written before it fails
PartialMembers(a) == {CHOOSE m \in ArchiveMembers(a) : TRUE}

(***************************************************************************)
(* extraction_manager.py                                                   *)
(***************************************************************************)
\* os.path.splitext(relative_path_to_str_file)[0] + "_str" under the output base
get_extraction_output_dir(a) ==
    IF a.root # "src" THEN None ELSE a.dir \o <<a.stem \o "_str">>

OutFile(a, m) ==
    [root |-> "out", dir |-> get_extraction_output_dir(a) \o m.dir, stem |-> m.stem, ext |-> m.ext]

\* the files under the output directory of an archive, by the directory's state
OutFiles(a, state) ==
    IF state = "full" THEN {OutFile(a, m) : m \in ArchiveMembers(a)}
    ELSE IF state = "partial" THEN {OutFile(a, m) : m \in PartialMembers(a)}
    ELSE {}

\* every file on disk
DiskFiles == tree \cup UNION {OutFiles(a, outdir[a]) : a \in Archives}

\* no output directory ever counts as extracted
NeverExtracted(a) == FALSE

\* a directory that exists counts as extracted
ExtractedWhenPresent(a) == outdir[a] # "absent"

\* os.path.isdir(d) and any(os.scandir(d))
AlreadyExtracted(a) == OutFiles(a, outdir[a]) # {}

\* extract_str_file when the output directory can be created: the directory
\* is made, then the tool runs unless the executable or the script is
\* missing; <<success, state of the directory, subprocess invoked>>.  A
\* "transient" failure is one that does not recur on the next invocation.
extract_str_file(a) ==
    IF toolOutcome[a] = "missing" THEN <<FALSE, "empty", FALSE>>
    ELSE IF toolOutcome[a] = "ok" THEN <<TRUE, "full", TRUE>>
    ELSE IF toolOutcome[a] = "partial" THEN <<FALSE, "partial", TRUE>>
    ELSE <<FALSE, "empty", TRUE>>

(***************************************************************************)
(* relationship_builder.py                                                 *)
(***************************************************************************)
\* no container edge is recorded
add_str_content_relationship_skipped(ctx, str_archive_uuid, content_file_uuid, content_file_table_name) ==
    ctx

\* the container edge names the table of unknown files whatever the member is
add_str_content_relationship_untyped(ctx, str_archive_uuid, content_file_uuid, content_file_table_name) ==
    IF str_archive_uuid = None \/ content_file_uuid = None THEN ctx
    ELSE insert_relationship_entry(ctx, "str_content_relationship",
             [str_uuid |-> str_archive_uuid, content_file_uuid |-> content_file_uuid,
              content_file_table |-> "unknown_files_index"]).ctx

add_str_content_relationship(ctx, str_archive_uuid, content_file_uuid, content_file_table_name) ==
    IF str_archive_uuid = None \/ content_file_uuid = None THEN ctx
    ELSE insert_relationship_entry(ctx, "str_content_relationship",
             [str_uuid |-> str_archive_uuid, content_file_uuid |-> content_file_uuid,
              content_file_table |-> content_file_table_name]).ctx

add_txd_dds_relationship(ctx, txd_file_uuid, dds_file_uuid) ==
    IF txd_file_uuid = None \/ dds_file_uuid = None THEN ctx
    ELSE insert_relationship_entry(ctx, "txd_dds_relationship",
             [txd_uuid |-> txd_file_uuid, dds_uuid |-> dds_file_uuid]).ctx

add_blend_preinstanced_relationship(ctx, blend_file_uuid, preinstanced_file_uuid) ==
    IF blend_file_uuid = None \/ preinstanced_file_uuid = None THEN ctx
    ELSE insert_relationship_entry(ctx, "blend_preinstanced_relationship",
             [blend_uuid |-> blend_file_uuid, preinstanced_uuid |-> preinstanced_file_uuid]).ctx

\* no export edge is recorded
add_model_export_blend_relationship_skipped(ctx, exported_model_uuid, exported_model_table, blend_file_uuid) ==
    ctx

add_model_export_blend_relationship(ctx, exported_model_uuid, exported_model_table, blend_file_uuid) ==
    IF exported_model_uuid = None \/ blend_file_uuid = None THEN ctx
    ELSE insert_relationship_entry(ctx, "model_export_blend_relationship",
             [exported_model_uuid |-> exported_model_uuid,
              exported_model_table |-> exported_model_table,
              blend_uuid |-> blend_file_uuid]).ctx

add_snu_wav_relationship(ctx, snu_file_uuid, wav_file_uuid) ==
    IF snu_file_uuid = None \/ wav_file_uuid = None THEN ctx
    ELSE insert_relationship_entry(ctx, "snu_wav_relationship",
             [snu_uuid |-> snu_file_uuid, wav_uuid |-> wav_file_uuid]).ctx

\* the entries of extracted_content_map: [ext, rel, uuid], ext the lower-cased
\* extension the entry is filed under and rel the path within the extraction
\* as it is written.  The pairs of entries (x, y) with x filed under fromExt
\* and y filed under toExt whose path is the string splitext(x.rel)[0] + toExt
MatchesByName(extracted_content_map, fromExt, toExt) ==
    {<<x, y>> \in extracted_content_map \X extracted_content_map :
        /\ x.ext = fromExt
        /\ y.ext = toExt
        /\ y.rel.stem = x.rel.stem}

Matches(extracted_content_map, fromExt, toExt) ==
    {<<x, y>> \in extracted_content_map \X extracted_content_map :
        /\ x.ext = fromExt
        /\ y.ext = toExt
        /\ y.rel = [x.rel EXCEPT !.ext = toExt]}

RECURSIVE RelateBlendPreinstanced(_, _)
RelateBlendPreinstanced(ctx, pairs) ==
    IF pairs = {} THEN ctx
    ELSE LET p == CHOOSE q \in pairs : TRUE IN
         RelateBlendPreinstanced(
             add_blend_preinstanced_relationship(ctx, p[1].uuid, p[2].uuid), pairs \ {p})

RECURSIVE RelateModelExports(_, _)
RelateModelExports(ctx, pairs) ==
    IF pairs = {} THEN ctx
    ELSE LET p == CHOOSE q \in pairs : TRUE IN
         RelateModelExports(
             add_model_export_blend_relationship(ctx, p[1].uuid,
                 get_table_name_for_ext(p[1].ext), p[2].uuid), pairs \ {p})

RECURSIVE RelateSnuWav(_, _)
RelateSnuWav(ctx, pairs) ==
    IF pairs = {} THEN ctx
    ELSE LET p == CHOOSE q \in pairs : TRUE IN
         RelateSnuWav(add_snu_wav_relationship(ctx, p[1].uuid, p[2].uuid), pairs \ {p})

process_relationships_in_extracted_dir(ctx, extracted_content_map) ==
    LET c1 == RelateBlendPreinstanced(ctx, Matches(extracted_content_map, "blend", "preinstanced"))
        c2 == RelateModelExports(c1, Matches(extracted_content_map, "glb", "blend")
                                       \cup Matches(extracted_content_map, "fbx", "blend"))
    IN  RelateSnuWav(c2, Matches(extracted_content_map, "snu", "wav"))

(***************************************************************************)
(* file_indexers/txd_file_indexer.py                                       *)
(***************************************************************************)
IsPrefix(s, t) == Len(s) <= Len(t) /\ SubSeq(t, 1, Len(s)) = s

\* the .dds files os.walk finds under <txd_name>_txd next to the dictionary
SiblingImages(f) ==
    {g \in DiskFiles : /\ g.root = f.root
                       /\ IsPrefix(f.dir \o <<f.stem \o "_txd">>, g.dir)
                       /\ lower(g.ext) = "dds"}

\* lines 55-56: the edge for an image that was indexed
LinkImage(dds, txd_file_uuid) ==
    IF dds.ret # None /\ txd_file_uuid # None
        THEN add_txd_dds_relationship(dds.ctx, txd_file_uuid, dds.ret)
        ELSE dds.ctx

\* the sibling images cataloged as plain members of the dictionary's group,
\* without their perceptual hashes
RECURSIVE IndexSiblingImagesPlainly(_, _, _, _)
IndexSiblingImagesPlainly(ctx, txd_file_uuid, images, base) ==
    IF images = {} THEN ctx
    ELSE LET g == CHOOSE h \in images : TRUE IN
         IndexSiblingImagesPlainly(
             LinkImage(IF sha256_file(g) = None THEN [ret |-> None, raised |-> FALSE, ctx |-> ctx]
                       ELSE insert_file_entry(ctx, get_table_name_for_ext("dds"),
                                FileRow(g, get_relative_path(g, base), sha256_file(g),
                                        md5_string(get_relative_path(g, base)),
                                        GroupOf("txd", "textures")) @@ NoImageHashes),
                       txd_file_uuid),
             txd_file_uuid, images \ {g}, base)

RECURSIVE IndexSiblingImages(_, _, _, _)
IndexSiblingImages(ctx, txd_file_uuid, images, base) ==
    IF images = {} THEN ctx
    ELSE LET g == CHOOSE h \in images : TRUE IN
         IndexSiblingImages(
             LinkImage(index_dds_file(ctx, g, get_relative_path(g, base)), txd_file_uuid),
             txd_file_uuid, images \ {g}, base)

process_txd_contained_dds_files(ctx, txd_file_uuid, f, base) ==
    IndexSiblingImages(ctx, txd_file_uuid, SiblingImages(f), base)

DictionaryIndexedRegardless(txd, f, associated_dds_rel_path_base) ==
    [ret |-> txd.ret, raised |-> FALSE,
     ctx |-> process_txd_contained_dds_files(txd.ctx, txd.ret, f, associated_dds_rel_path_base)]

\* lines 95-101: the sibling images, once the dictionary is cataloged
DictionaryIndexed(txd, f, associated_dds_rel_path_base) ==
    IF txd.ret = None THEN [ret |-> None, raised |-> FALSE, ctx |-> txd.ctx]
    ELSE [ret |-> txd.ret, raised |-> FALSE,
          ctx |-> process_txd_contained_dds_files(txd.ctx, txd.ret, f, associated_dds_rel_path_base)]

index_txd_file(ctx, f, rel_path_for_db, associated_dds_rel_path_base) ==
    DictionaryIndexed(
        index_generic_file(ctx, f, rel_path_for_db, "txd", GroupOf("txd", "textures")),
        f, associated_dds_rel_path_base)

(***************************************************************************)
(* The contention patterns an operation may meet, and the context a        *)
(* handler starts from.                                                    *)
(***************************************************************************)
MaxLockDelay == 1
MaxLockLen == 5

\* a pattern without a locked attempt is the free store
LockPatterns == {l \in [delay : 0..MaxLockDelay, len : 0..MaxLockLen] : l.len = 0 => l.delay = 0}

NoLock == [delay |-> 0, len |-> 0]

NoCall == [n |-> 0, op |-> "none", table |-> "none", data |-> None,
           ret |-> None, raised |-> FALSE, log |-> <<>>, pending |-> {}]

Db == [tables |-> tables, rels |-> rels]

Context(lock) == [db |-> Db, lock |-> lock, log |-> <<>>, pending |-> {}]

(***************************************************************************)
(* processing_orchestrator.py                                              *)
(***************************************************************************)
MaxRuns == 2
MaxContention == 1
MaxFaults == 1

\* the files whose bytes may be replaced between two runs
Mutable == {FileR}

\* the files that may be unreadable
Unreadables == {FileR, ArchiveA}

\* the archives for which the tool may fail
Fragile == {ArchiveA}

\* every file of the source tree and of the archives in it
AllFiles == tree \cup UNION {OutFiles(a, "full") : a \in Archives}

\* the image files on disk, in the source tree and in the extraction outputs
Images == {f \in AllFiles : lower(f.ext) = "dds"}

DecodeOutcomes == {"ok", "unidentified", "gray_only"}

ToolOutcomes == {"ok", "fail", "partial", "oserror", "missing", "transient"}

\* the dispatch on the extension, in Pass 1 and in the walk of an extraction
IndexByExt(ctx, f, rel_path_for_db, base) ==
    IF lower(f.ext) = "dds" THEN index_dds_file(ctx, f, rel_path_for_db)
    ELSE IF lower(f.ext) = "txd" THEN index_txd_file(ctx, f, rel_path_for_db, base)
    ELSE index_generic_file(ctx, f, rel_path_for_db, lower(f.ext),
                            GroupOf(lower(f.ext), "unknown"))

Counts == [t \in FileTables \cup RelTables |->
              IF t \in FileTables THEN Cardinality(tables[t]) ELSE Cardinality(rels[t])]

\* the contention patterns a handler may meet: the other process contends
\* at most MaxContention times
LockChoices == {l \in LockPatterns : l.len > 0 => hist.contended < MaxContention}

Contended(h, lock) == [h EXCEPT !.contended = IF lock.len > 0 THEN @ + 1 ELSE @]

\* a statement was abandoned on a locked store
LockedOut(trace) == trace.outcomes[Len(trace.outcomes)] = "locked"

LostIn(log) == \E i \in 1..Len(log) : LockedOut(log[i])

\* the Pass 2 loop after the archives in `rest` remain
AfterContainer(rest) == IF rest = {} THEN "Done" ELSE "ScanningContainers"

NoHist ==
    [lost |-> FALSE, leftBehind |-> FALSE, toolFailed |-> {}, indexedFrom |-> {},
     invoked |-> {}, statements |-> 0, related |-> <<>>,
     visited |-> {}, startCounts |-> [t \in FileTables \cup RelTables |-> 0],
     prevLost |-> FALSE, prevLeft |-> FALSE, prevFailed |-> {}, startOutdir |-> <<>>,
     prevDone |-> FALSE, changed |-> FALSE, pending |-> FALSE, contended |-> 0]

StartRun ==
    /\ phase \in {"idle", "Done", "Aborted"}
    /\ run < MaxRuns
    /\ run' = run + 1
    /\ phase' = "ScanningRoot"
    /\ todo' = tree
    /\ todoStr' = {}
    /\ cur' = None
    /\ parent_str_uuid' = None
    /\ todoOut' = {}
    /\ details' = {}
    /\ hist' = [lost |-> FALSE, leftBehind |-> FALSE, toolFailed |-> {}, indexedFrom |-> {},
                invoked |-> {}, statements |-> 0, related |-> <<>>,
                visited |-> {}, startCounts |-> Counts, prevLost |-> hist.lost,
                prevLeft |-> hist.leftBehind, prevFailed |-> hist.toolFailed,
                startOutdir |-> outdir,
                prevDone |-> (phase = "Done"),
                changed |-> hist.pending, pending |-> FALSE, contended |-> hist.contended]
    /\ UNCHANGED <<tree, decode, tables, rels, content, unreadable, toolOutcome, outdir, lastCall>>

\* the bytes of a source file are replaced between two runs
ModifyFile ==
    /\ phase \in {"Done", "Aborted"}
    /\ run < MaxRuns
    /\ ~hist.pending
    /\ \E f \in Mutable \cap tree :
          content' = [content EXCEPT ![f] = @ + 1]
    /\ hist' = [hist EXCEPT !.pending = TRUE]
    /\ UNCHANGED <<tree, decode, tables, rels, unreadable, toolOutcome, outdir, phase, run, todo, todoStr,
                   cur, parent_str_uuid, todoOut, details, lastCall>>

Pass1FileUnfiltered ==
    /\ phase = "ScanningRoot"
    /\ \E f \in todo, lock \in LockChoices :
       \E r \in {IndexByExt(Context(lock), f, get_relative_path(f, "src"), "src")} :
          LET rest == todo \ {f}
              found == {a \in tree : lower(a.ext) = "str"}
          IN  /\ tables' = r.ctx.db.tables
              /\ rels' = r.ctx.db.rels
              /\ hist' = [Contended(hist, lock) EXCEPT !.lost = @ \/ LostIn(r.ctx.log),
                                                       !.statements = Len(r.ctx.log)]
              /\ todo' = rest
              /\ phase' = IF rest # {} THEN "ScanningRoot" ELSE AfterContainer(found)
              /\ todoStr' = IF rest # {} THEN todoStr ELSE found
    /\ UNCHANGED <<tree, decode, content, unreadable, toolOutcome, outdir, run, cur, parent_str_uuid,
                   todoOut, details, lastCall>>

\* one iteration of the Pass 1 loop (lines 111-132)
Pass1File ==
    /\ phase = "ScanningRoot"
    /\ \E f \in todo, lock \in LockChoices :
       \E r \in {IndexByExt(Context(lock), f, get_relative_path(f, "src"), "src")} :
          LET skip == lower(f.ext) = "" \/ lower(f.ext) = "str"
              rest == todo \ {f}
              found == {a \in tree : lower(a.ext) = "str"}
          IN  /\ tables' = IF skip THEN tables ELSE r.ctx.db.tables
              /\ rels' = IF skip THEN rels ELSE r.ctx.db.rels
              /\ hist' = IF skip THEN [hist EXCEPT !.statements = 0]
                         ELSE [Contended(hist, lock) EXCEPT !.lost = @ \/ LostIn(r.ctx.log),
                                                           !.statements = Len(r.ctx.log)]
              /\ todo' = rest
              /\ phase' = IF rest # {} THEN "ScanningRoot" ELSE AfterContainer(found)
              /\ todoStr' = IF rest # {} THEN todoStr ELSE found
    /\ UNCHANGED <<tree, decode, content, unreadable, toolOutcome, outdir, run, cur, parent_str_uuid,
                   todoOut, details, lastCall>>

\* lines 144-166: the walk yields an archive and index_str_archive catalogs it
CatalogContainer ==
    /\ phase = "ScanningContainers"
    /\ \E a \in todoStr, lock \in LockChoices :
       \E r \in {index_str_archive(Context(lock), a, get_relative_path(a, "src"))} :
          LET skipped == r.ret = None \/ get_extraction_output_dir(a) = None
          IN  /\ tables' = r.ctx.db.tables
              /\ rels' = r.ctx.db.rels
              /\ hist' = [Contended(hist, lock) EXCEPT !.lost = @ \/ LostIn(r.ctx.log),
                                      !.statements = Len(r.ctx.log),
                                      !.visited = @ \cup {a}]
              /\ todoStr' = IF skipped THEN todoStr \ {a} ELSE todoStr
              /\ phase' = IF skipped THEN AfterContainer(todoStr \ {a}) ELSE "Cataloged"
              /\ cur' = IF skipped THEN None ELSE a
              /\ parent_str_uuid' = IF skipped THEN None ELSE r.ret
    /\ UNCHANGED <<tree, decode, content, unreadable, toolOutcome, outdir, run, todo, todoOut, details,
                   lastCall>>

\* the output walked whatever the tool returned
AfterExtractionUnchecked(a, extraction_successful, state) ==
    IF state # "absent" /\ OutFiles(a, state) # {}
        THEN "IndexingExtraction"
        ELSE AfterContainer(todoStr \ {a})

\* the output related without being walked
AfterExtractionRelating(a, extraction_successful, state) ==
    IF extraction_successful /\ state # "absent" /\ OutFiles(a, state) # {}
        THEN "RelatingExtraction"
        ELSE AfterContainer(todoStr \ {a})

\* after the extraction step of archive a: walk its output or go on to the
\* next archive (lines 189-195, and 85-86 for an empty walk)
AfterExtraction(a, extraction_successful, state) ==
    IF extraction_successful /\ state # "absent" /\ OutFiles(a, state) # {}
        THEN "IndexingExtraction"
        ELSE AfterContainer(todoStr \ {a})

\* lines 168-187: skip the extraction or invoke the tool
Extract ==
    /\ phase = "Cataloged"
    /\ LET a == cur
           needed == ~AlreadyExtracted(a)
           oserror == needed /\ toolOutcome[a] = "oserror"
           res == IF needed THEN extract_str_file(a) ELSE <<TRUE, outdir[a], FALSE>>
           next == AfterExtraction(a, res[1], res[2])
       IN  IF oserror
           THEN /\ phase' = "Aborted"
                /\ UNCHANGED <<outdir, toolOutcome, todoStr, cur, parent_str_uuid, todoOut, hist>>
           ELSE /\ outdir' = [outdir EXCEPT ![a] = res[2]]
                /\ toolOutcome' = IF needed /\ toolOutcome[a] = "transient"
                                      THEN [toolOutcome EXCEPT ![a] = "ok"]
                                      ELSE toolOutcome
                /\ phase' = next
                /\ todoOut' = IF next = "IndexingExtraction" THEN OutFiles(a, res[2]) ELSE {}
                /\ todoStr' = IF next = "IndexingExtraction" THEN todoStr ELSE todoStr \ {a}
                /\ cur' = IF next = "IndexingExtraction" THEN cur ELSE None
                /\ parent_str_uuid' = IF next = "IndexingExtraction" THEN parent_str_uuid ELSE None
                /\ hist' = [hist EXCEPT
                              !.toolFailed = IF res[1] THEN @ ELSE @ \cup {a},
                              !.invoked = IF res[3] THEN @ \cup {a} ELSE @,
                              !.leftBehind = @ \/ (~res[1] /\ OutFiles(a, res[2]) # {})]
    /\ UNCHANGED <<tree, decode, tables, rels, content, unreadable, run, todo, details, lastCall>>

\* the path of an extracted file relative to the extraction directory
RelWithin(f, a) ==
    LET base == get_extraction_output_dir(a) IN
    [dir |-> SubSeq(f.dir, Len(base) + 1, Len(f.dir)), stem |-> f.stem, ext |-> f.ext]

\* one iteration of the walk of an extraction (lines 40-83)
IndexExtracted ==
    /\ phase = "IndexingExtraction"
    /\ \E f \in todoOut, lock \in LockChoices :
       \E r \in {IndexByExt(Context(lock), f, get_relative_path(f, "out"), "out")} :
       \E c \in {IF r.ret # None
                     THEN add_str_content_relationship(r.ctx, parent_str_uuid, r.ret,
                                                       get_table_name_for_ext(f.ext))
                     ELSE r.ctx} :
          LET skip == lower(f.ext) = ""
              rest == todoOut \ {f}
          IN  /\ tables' = IF skip THEN tables ELSE c.db.tables
              /\ rels' = IF skip THEN rels ELSE c.db.rels
              /\ details' = IF skip \/ r.ret = None THEN details
                            ELSE {d \in details : ~(d.ext = lower(f.ext) /\ d.rel = RelWithin(f, cur))}
                                 \cup {[ext |-> lower(f.ext), rel |-> RelWithin(f, cur), uuid |-> r.ret]}
              /\ hist' = IF skip THEN [hist EXCEPT !.statements = 0]
                         ELSE [Contended(hist, lock) EXCEPT !.lost = @ \/ LostIn(c.log),
                                           !.statements = Len(c.log),
                                           !.indexedFrom = @ \cup {cur}]
              /\ todoOut' = rest
              /\ phase' = IF rest = {} THEN "RelatingExtraction" ELSE "IndexingExtraction"
    /\ UNCHANGED <<tree, decode, content, unreadable, toolOutcome, outdir, run, todo, todoStr, cur,
                   parent_str_uuid, lastCall>>

\* line 89, then the next archive
RelateAcrossExtractions ==
    /\ phase = "RelatingExtraction"
    /\ \E lock \in LockChoices :
       \E c \in {process_relationships_in_extracted_dir(Context(lock), details)} :
          /\ tables' = c.db.tables
          /\ rels' = c.db.rels
          /\ hist' = [Contended(hist, lock) EXCEPT !.lost = @ \/ LostIn(c.log),
                                                  !.statements = Len(c.log),
                                                  !.related = Append(@, cur)]
    /\ todoStr' = todoStr \ {cur}
    /\ phase' = AfterContainer(todoStr \ {cur})
    /\ cur' = None
    /\ parent_str_uuid' = None
    /\ UNCHANGED <<tree, decode, content, unreadable, toolOutcome, outdir, run, todo, todoOut, details, lastCall>>

Relate ==
    /\ phase = "RelatingExtraction"
    /\ \E lock \in LockChoices :
       \E c \in {process_relationships_in_extracted_dir(Context(lock), details)} :
          /\ tables' = c.db.tables
          /\ rels' = c.db.rels
          /\ hist' = [Contended(hist, lock) EXCEPT !.lost = @ \/ LostIn(c.log),
                                                  !.statements = Len(c.log),
                                                  !.related = Append(@, cur)]
    /\ todoStr' = todoStr \ {cur}
    /\ phase' = AfterContainer(todoStr \ {cur})
    /\ cur' = None
    /\ parent_str_uuid' = None
    /\ details' = {}
    /\ UNCHANGED <<tree, decode, content, unreadable, toolOutcome, outdir, run, todo, todoOut, lastCall>>

\* the state before the first run over one of the source trees `trees`,
\* with at most MaxFaults faults among the files `unreadables`, the archives
\* `fragile` and the images `blurred`
InitFor(trees, unreadables, fragile, blurred) ==
    /\ tree \in trees
    /\ tables = EmptyDb.tables
    /\ rels = EmptyDb.rels
    /\ content = [f \in tree |-> 1]
    /\ unreadable \in SUBSET (unreadables \cap AllFiles)
    /\ toolOutcome \in [Archives -> ToolOutcomes]
    /\ \A a \in Archives \ fragile : toolOutcome[a] = "ok"
    /\ decode \in [Images -> DecodeOutcomes]
    /\ \A i \in Images \ blurred : decode[i] = "ok"
    /\ Cardinality(unreadable) + Cardinality({a \in Archives : toolOutcome[a] # "ok"})
          + Cardinality({i \in Images : decode[i] # "ok"}) <= MaxFaults
    /\ outdir = [a \in Archives |-> "absent"]
    /\ phase = "idle"
    /\ run = 0
    /\ todo = {}
    /\ todoStr = {}
    /\ cur = None
    /\ parent_str_uuid = None
    /\ todoOut = {}
    /\ details = {}
    /\ hist = NoHist
    /\ lastCall = NoCall

Init == InitFor({SrcTree}, Unreadables, Fragile, {})

Next ==
    \/ StartRun
    \/ ModifyFile
    \/ Pass1File
    \/ CatalogContainer
    \/ Extract
    \/ IndexExtracted
    \/ Relate

Spec == Init /\ [][Next]_vars

(***************************************************************************)
(* The pipeline over the small source trees, with unreadable members and   *)
(* images that cannot be decoded.                                          *)
(***************************************************************************)
\* the files of the small trees that may be unreadable
SceneUnreadables ==
    {FileR, ArchiveB, FileT, FileI} \cup {OutFile(ArchiveC, m) : m \in ArchiveMembers(ArchiveC)}

\* the images of the small trees that may fail to decode
SceneBlurred == {OutFile(ArchiveC, [dir |-> <<>>, stem |-> "p", ext |-> "dds"]), FileJ}

InitScenes == InitFor(SceneTrees, SceneUnreadables, {}, SceneBlurred)

SpecScenes == InitScenes /\ [][Next]_vars


(***************************************************************************)
(* Direct use of the catalog operations: any sequence of file and edge     *)
(* inserts, each under any contention pattern.                             *)
(***************************************************************************)
MaxOpsCalls == 4

OpsPathA == [dir |-> <<>>, stem |-> "a", ext |-> "bin"]
OpsPathB == [dir |-> <<>>, stem |-> "b", ext |-> "bin"]

OpsRow(bytes, keyPath, path) ==
    [uuid |-> generate_uuid(Sha256(bytes), md5_string(keyPath)),
     source_file_name |-> <<path.stem, path.ext>>,
     source_path |-> path,
     file_hash |-> Sha256(bytes),
     path_hash |-> md5_string(keyPath),
     group_name |-> "other"]

\* two records for one location with different keys, a record with the key
\* of the first at another location, and a record without a key
OpsFileData ==
    {OpsRow(1, OpsPathA, OpsPathA), OpsRow(2, OpsPathA, OpsPathA),
     OpsRow(1, OpsPathA, OpsPathB), [source_path |-> OpsPathA]}

\* the calls of insert_file_entry: every record into one table, and the
\* first record into the tables the edges refer to
OpsFileCalls ==
    {<<"dds_index", d>> : d \in OpsFileData}
    \cup {<<t, OpsRow(1, OpsPathA, OpsPathA)>> : t \in {"str_index", "txd_index", "blend_index"}}

OpsU1 == OpsRow(1, OpsPathA, OpsPathA).uuid
OpsU2 == OpsRow(2, OpsPathA, OpsPathA).uuid

OpsEdges ==
    {<<"str_content_relationship",
       [str_uuid |-> OpsU1, content_file_uuid |-> u, content_file_table |-> "dds_index"]>> :
         u \in {OpsU1, OpsU2}}
    \cup {<<"txd_dds_relationship", [txd_uuid |-> OpsU1, dds_uuid |-> u]>> : u \in {OpsU1, OpsU2}}
    \cup {<<"blend_preinstanced_relationship", [blend_uuid |-> OpsU1, preinstanced_uuid |-> OpsU1]>>}
    \cup {<<"model_export_blend_relationship",
            [exported_model_uuid |-> OpsU2, exported_model_table |-> t, blend_uuid |-> OpsU1]>> :
              t \in {"glb_index", "fbx_index"}}
    \cup {<<"snu_wav_relationship", [snu_uuid |-> OpsU1, wav_uuid |-> OpsU2]>>}

\* the connection as the previous call left it
OpsContext(lock) == [Context(lock) EXCEPT !.pending = lastCall.pending]

CallInsertFile ==
    /\ lastCall.n < MaxOpsCalls
    /\ \E c \in OpsFileCalls, lock \in LockPatterns :
       \E r \in {insert_file_entry(OpsContext(lock), c[1], c[2])} :
          LET t == c[1]
              d == c[2] IN
          /\ tables' = r.ctx.db.tables
          /\ rels' = r.ctx.db.rels
          /\ lastCall' = [n |-> lastCall.n + 1, op |-> "insert_file_entry", table |-> t,
                          data |-> d, ret |-> r.ret, raised |-> r.raised, log |-> r.ctx.log,
                          pending |-> r.ctx.pending]
    /\ UNCHANGED <<tree, decode, content, unreadable, toolOutcome, outdir, phase, run, todo, todoStr,
                   cur, parent_str_uuid, todoOut, details, hist>>

CallInsertEdge ==
    /\ lastCall.n < MaxOpsCalls
    /\ \E e \in OpsEdges, lock \in LockPatterns :
       \E r \in {insert_relationship_entry(OpsContext(lock), e[1], e[2])} :
          /\ tables' = r.ctx.db.tables
          /\ rels' = r.ctx.db.rels
          /\ lastCall' = [n |-> lastCall.n + 1, op |-> "insert_relationship_entry",
                          table |-> e[1], data |-> e[2], ret |-> r.ret, raised |-> r.raised,
                          log |-> r.ctx.log, pending |-> r.ctx.pending]
    /\ UNCHANGED <<tree, decode, content, unreadable, toolOutcome, outdir, phase, run, todo, todoStr,
                   cur, parent_str_uuid, todoOut, details, hist>>

InitOps ==
    /\ tree = {}
    /\ decode = <<>>
    /\ tables = EmptyDb.tables
    /\ rels = EmptyDb.rels
    /\ content = <<>>
    /\ unreadable = {}
    /\ toolOutcome = <<>>
    /\ outdir = <<>>
    /\ phase = "idle"
    /\ run = 0
    /\ todo = {}
    /\ todoStr = {}
    /\ cur = None
    /\ parent_str_uuid = None
    /\ todoOut = {}
    /\ details = {}
    /\ hist = NoHist
    /\ lastCall = NoCall

NextOps == CallInsertFile \/ CallInsertEdge

SpecOps == InitOps /\ [][NextOps]_vars

(***************************************************************************)
(* Properties                                                              *)
(***************************************************************************)
\* a step that is one call of insert_file_entry / insert_relationship_entry
FileCall == lastCall'.n = lastCall.n + 1 /\ lastCall'.op = "insert_file_entry"

EdgeCall ==
    /\ lastCall'.n = lastCall.n + 1
    /\ lastCall'.op = "insert_relationship_entry"
    /\ lastCall'.table \in DOMAIN rels

Complete(data) == "source_path" \in DOMAIN data /\ "uuid" \in DOMAIN data

\* the rows that hold the location of the record of the call, before the call
AtLocation == {r \in tables[lastCall'.table] : r.source_path = lastCall'.data.source_path}

\* the stored edge e is the edge d
SameEdge(e, d) == \A c \in DOMAIN d : e[c] = d[c]

\* the edge of the call is in its table before the call
EdgePresent == \E e \in rels[lastCall'.table] : SameEdge(e, lastCall'.data)

\* the outcome of the last attempt of a statement
Final(trace) == trace.outcomes[Len(trace.outcomes)]

IsWrite(trace) == trace.kind \in {"INSERT_FILE", "INSERT_REL"}

RowFor(t, path) == {r \in tables[t] : r.source_path = path}

\* C1 as stated: a second complete run over an unchanged source tree and
\* unchanged extraction outputs leaves every table with the row count it had
\* when the run started.
C1_SecondRunSameCounts ==
    (phase = "Done" /\ run >= 2 /\ hist.prevDone /\ ~hist.changed /\ outdir = hist.startOutdir)
        => Counts = hist.startCounts

\* What holds in place of C1: the second run leaves every row count unchanged
\* when the first run abandoned no catalog statement on a locked datastore
\* and no failed extraction left files in its output directory.
C1_SecondRunSameCountsAfterCleanRun ==
    (phase = "Done" /\ run >= 2 /\ hist.prevDone /\ ~hist.changed /\ outdir = hist.startOutdir
        /\ ~hist.prevLost /\ ~hist.prevLeft)
        => Counts = hist.startCounts

\* C2 as stated: insert_file_entry with a record whose location is already in
\* the table returns the key of the row that holds it, raises nothing and
\* leaves the table as it was.
C2_ConflictReturnsStoredKey ==
    [][(FileCall /\ Complete(lastCall'.data)) =>
          \A r \in AtLocation :
             /\ lastCall'.ret = r.uuid
             /\ ~lastCall'.raised
             /\ tables' = tables]_vars

\* What holds in place of C2: such a call raises nothing and leaves the table
\* as it was; it returns the key of the row that holds the location unless a
\* statement of the call was abandoned on a locked datastore, and then it
\* returns None or the record's own key.
C2_ConflictReturnsStoredKeyUnlessLocked ==
    [][(FileCall /\ Complete(lastCall'.data)) =>
          \A r \in AtLocation :
             /\ ~lastCall'.raised
             /\ tables' = tables
             /\ \/ lastCall'.ret = r.uuid
                \/ /\ LostIn(lastCall'.log)
                   /\ lastCall'.ret \in {None, lastCall'.data.uuid}]_vars

\* C3: in every catalog state no two rows of a file table share a location
\* or an identity key, and no two rows of an edge table share the columns
\* that define the edge.
C3_RowsUnique ==
    /\ \A t \in DOMAIN tables : \A r1, r2 \in tables[t] :
          (r1.source_path = r2.source_path \/ r1.uuid = r2.uuid) => r1 = r2
    /\ \A t \in DOMAIN rels : \A e1, e2 \in rels[t] :
          (\A c \in UniqueCols[t] : e1[c] = e2[c]) => e1 = e2

\* a table holds two rows, and the last call offered it a record with the
\* location of one and the key of the other, which the table rejected
C3_Witness ==
    /\ lastCall.op = "insert_file_entry"
    /\ Complete(lastCall.data)
    /\ Cardinality(tables[lastCall.table]) = 2
    /\ \E r1, r2 \in tables[lastCall.table] :
          /\ r1 # r2
          /\ r1.source_path = lastCall.data.source_path
          /\ r2.uuid = lastCall.data.uuid
    /\ Final(lastCall.log[1]) = "IntegrityError"

\* C4: once a row is in the catalog it stays, with every field as it was
\* stored.
C4_RowsStay ==
    [][/\ \A t \in DOMAIN tables : tables[t] \subseteq tables'[t]
       /\ \A t \in DOMAIN rels : rels[t] \subseteq rels'[t]]_vars

\* a second run has gone over a file whose bytes were replaced, and the row
\* of the file still holds the hash of the old bytes
C4_Witness ==
    /\ phase = "Done" /\ run = 2 /\ hist.changed
    /\ FileR \notin unreadable
    /\ \E r \in RowFor(get_table_name_for_ext(FileR.ext), get_relative_path(FileR, "src")) :
          r.file_hash # sha256_file(FileR)

\* parent, child and child category of a stored edge
EdgeKey(t, e) ==
    IF t = "str_content_relationship"
        THEN <<e.str_uuid, e.content_file_uuid, e.content_file_table>>
    ELSE IF t = "txd_dds_relationship" THEN <<e.txd_uuid, e.dds_uuid, "dds_index">>
    ELSE IF t = "model_export_blend_relationship"
        THEN <<e.blend_uuid, e.exported_model_uuid, e.exported_model_table>>
    ELSE <<e.blend_uuid, e.preinstanced_uuid, "preinstanced_index">>

\* C5: recording an edge that its table already holds changes nothing and
\* raises nothing, and a table holds at most one edge for a parent, a child
\* and a child category.
C5_EdgeRecordedOnce ==
    [][/\ (EdgeCall /\ EdgePresent) =>
             (rels' = rels /\ tables' = tables /\ ~lastCall'.raised)
       /\ \A t \in DOMAIN rels : \A e1, e2 \in rels'[t] :
             EdgeKey(t, e1) = EdgeKey(t, e2) => e1 = e2]_vars

\* the last call recorded a texture-dictionary -> image edge that was there
C5_Witness ==
    /\ lastCall.op = "insert_relationship_entry"
    /\ lastCall.table = "txd_dds_relationship"
    /\ Cardinality(rels["txd_dds_relationship"]) = 1
    /\ \E e \in rels["txd_dds_relationship"] : SameEdge(e, lastCall.data)
    /\ lastCall.log[1].outcomes = <<"IntegrityError">>

\* C6 as stated: insert_relationship_entry returns one value when the call
\* inserted the edge and the other value when the edge was already there.
C6_ReturnTellsInsertedFromPresent ==
    [][EdgeCall =>
          /\ rels' # rels => lastCall'.ret = TRUE
          /\ EdgePresent => lastCall'.ret = FALSE]_vars

\* C6, amended: insert_relationship_entry raises nothing; it returns True
\* when the call inserted the edge and also when the INSERT was rejected by
\* a constraint (the edge already there, or a referenced row missing), and
\* False only when the INSERT failed otherwise (the datastore locked on every
\* attempt, or no such table).
C6_ReturnTrueAlsoWhenPresent ==
    [][(lastCall'.n = lastCall.n + 1 /\ lastCall'.op = "insert_relationship_entry") =>
          /\ ~lastCall'.raised
          /\ lastCall'.ret = TRUE <=> Final(lastCall'.log[1]) \in {"none", "IntegrityError"}
          /\ lastCall'.ret = FALSE <=> Final(lastCall'.log[1]) \in {"locked", "OperationalError"}
          /\ rels' # rels <=> Final(lastCall'.log[1]) = "none"
          /\ (EdgeCall /\ EdgePresent /\ ~LostIn(lastCall'.log)) =>
                (lastCall'.ret = TRUE /\ rels' = rels)]_vars

\* the last call recorded a container -> member edge that was there and
\* returned True
C6_Witness ==
    /\ lastCall.op = "insert_relationship_entry"
    /\ lastCall.table = "str_content_relationship"
    /\ lastCall.ret = TRUE
    /\ \E e \in rels["str_content_relationship"] :
          SameEdge(e, lastCall.data) /\ e.id = 1
    /\ lastCall.n >= 3
    /\ Final(lastCall.log[1]) = "IntegrityError"

\* C7 as stated: a write that finds the datastore locked on every one of its
\* MAX_DB_RETRIES attempts raises the error to the caller of the insert.
C7_ExhaustedWriteRaises ==
    \A i \in 1..Len(lastCall.log) :
        (IsWrite(lastCall.log[i]) /\ LockedOut(lastCall.log[i])) => lastCall.raised

C9_RunNeverAborted == phase # "Aborted"

\* C10: an archive whose extraction tool failed keeps its own row, gets no
\* member row and no edge in the run, and the run goes on: when it is done
\* it has visited every archive and has cataloged and walked every other
\* readable one.
C10_FailedExtractionSkipsArchive ==
    \A a \in hist.toolFailed :
        /\ a \notin hist.indexedFrom
        /\ cur # a
        /\ phase # "Aborted"
        /\ ~hist.lost => RowFor("str_index", get_relative_path(a, "src")) # {}
        /\ phase = "Done" =>
              /\ hist.visited = Archives
              /\ ~hist.lost =>
                    \A b \in Archives \ (hist.toolFailed \cup unreadable) :
                       /\ RowFor("str_index", get_relative_path(b, "src")) # {}
                       /\ b \in hist.indexedFrom

\* a run is done in which the tool failed for one archive and the members
\* of the other were indexed
C10_Witness ==
    /\ phase = "Done"
    /\ hist.toolFailed = {ArchiveA}
    /\ hist.indexedFrom = {ArchiveB}
    /\ RowFor("str_index", get_relative_path(ArchiveA, "src")) # {}
    /\ outdir[ArchiveA] = "partial"

\* a step that is the extraction step of the archive cur (lines 168-187)
ExtractStep == phase = "Cataloged" /\ phase' # "Cataloged"

\* C11: when the output directory of an archive exists and is not empty the
\* extraction step reports success (the content of the directory is walked)
\* without invoking the subprocess and leaves the directory as it is; the
\* subprocess is invoked only for an archive whose output directory is
\* absent or empty.
C11_NonEmptyOutputSkipsTool ==
    [][ExtractStep =>
          /\ AlreadyExtracted(cur) =>
                /\ hist'.invoked = hist.invoked
                /\ cur \notin hist'.toolFailed
                /\ outdir' = outdir
                /\ phase' = "IndexingExtraction"
                /\ todoOut' = OutFiles(cur, outdir[cur])
          /\ hist'.invoked # hist.invoked =>
                /\ hist'.invoked = hist.invoked \cup {cur}
                /\ outdir[cur] \in {"absent", "empty"}]_vars

\* the second run walks the output the first run extracted, and the tool
\* has not been invoked in it
C11_Witness ==
    /\ run = 2
    /\ phase = "IndexingExtraction"
    /\ cur = ArchiveB
    /\ outdir[ArchiveB] = "full"
    /\ hist.invoked = {}
    /\ ArchiveB \notin hist.toolFailed

\* the files the Pass 1 walk and the walk of an extraction yield in a step
Walked == (todo \ todo') \cup (todoOut \ todoOut')

\* where the files are relative to: STR_INPUT_DIR for a source file,
\* OUTPUT_BASE_DIR for an extracted one
BaseOf(f) == f.root

\* the row of file f in table t: its location, its digests and its key
RowOf(t, f) ==
    {r \in tables[t] :
        /\ r.source_path = get_relative_path(f, BaseOf(f))
        /\ r.file_hash = Sha256(FileBytes(f))
        /\ r.path_hash = md5_string(get_relative_path(f, BaseOf(f)))
        /\ r.uuid = generate_uuid(r.file_hash, r.path_hash)}

\* C12: an image that can be read but not decoded is cataloged when the
\* walk yields it (no statement of the run being abandoned on a locked
\* datastore): dds_index holds a row with its key, content digest and path
\* digest and with every perceptual hash absent, and the key is what
\* index_dds_file returned, the member entry and the container edge of an
\* extracted image carrying it.
C12_UndecodableImageCataloged ==
    [][\A f \in Walked :
          (f.ext = "dds" /\ f \notin unreadable /\ decode[f] = "unidentified"
              /\ ~hist'.lost) =>
             /\ \E r \in RowOf("dds_index", f)' :
                   /\ \A h \in DOMAIN NoImageHashes : r[h] = None
                   /\ f.root = "out" =>
                         /\ [ext |-> "dds", rel |-> RelWithin(f, cur), uuid |-> r.uuid] \in details'
                         /\ \E e \in rels'["str_content_relationship"] :
                               /\ e.str_uuid = parent_str_uuid
                               /\ e.content_file_uuid = r.uuid
                               /\ e.content_file_table = "dds_index"]_vars

\* a run is done in which the image of the archive could not be decoded:
\* its row is in dds_index without perceptual hashes, with a container edge
C12_Witness ==
    /\ phase = "Done"
    /\ tree = TreeImageText
    /\ unreadable = {}
    /\ \E i \in Images :
          /\ decode[i] = "unidentified"
          /\ \E r \in RowOf("dds_index", i) :
                /\ r.phash = None /\ r.color_phash = None
                /\ \E e \in rels["str_content_relationship"] : e.content_file_uuid = r.uuid

\* the archives the Pass 2 walk yields in a step
WalkedArchives == IF phase = "ScanningContainers" THEN todoStr \ todoStr' ELSE {}

\* the key file f gets from its bytes and its location
KeyOf(f) ==
    generate_uuid(Sha256(FileBytes(f)), md5_string(get_relative_path(f, BaseOf(f))))

\* a table holds a row for the location of file f
HasRow(f) ==
    \E t \in DOMAIN tables : \E r \in tables[t] :
        r.source_path = get_relative_path(f, BaseOf(f))

\* an edge table holds an edge that names the key k
Named(k) ==
    \E t \in DOMAIN rels : \E e \in rels[t] :
        \E c \in UniqueCols[t] \ {"content_file_table"} : e[c] = k

\* C13: the step in which a walk yields a file that cannot be read executes
\* no statement, changes no table, records no member entry and goes on to
\* the next file; no table ever holds a row for the location of such a file
\* and no edge names the key it would have; the run that is done has a row
\* for every other file with an extension that is on disk (no statement of
\* it being abandoned on a locked datastore).
C13_UnreadableNeverCataloged ==
    [][/\ \A f \in (Walked \cup WalkedArchives) \cap unreadable :
             /\ hist'.statements = 0
             /\ tables' = tables /\ rels' = rels
             /\ details' = details
             /\ phase' \notin {"Aborted", "Cataloged"}
       /\ \A f \in unreadable : ~HasRow(f)' /\ ~Named(KeyOf(f))'
       /\ (phase' = "Done" /\ ~hist'.lost) =>
             \A g \in DiskFiles' \ unreadable : g.ext # "" => HasRow(g)']_vars

\* a run is done in which a member of the archive could not be read: the
\* other member has its row and its container edge
C13_Witness ==
    /\ phase = "Done"
    /\ tree = TreeImageText
    /\ ~hist.lost
    /\ \E f \in unreadable :
          /\ f.root = "out" /\ f \in DiskFiles
          /\ ~HasRow(f)
          /\ \E g \in DiskFiles \ {f} :
                /\ g.root = "out"
                /\ HasRow(g)
                /\ \E e \in rels["str_content_relationship"] : e.content_file_uuid = KeyOf(g)

\* the first run is done, every file could be read, every extraction
\* succeeded and no statement was abandoned on a locked datastore
FirstRunSucceeded ==
    /\ phase = "Done" /\ run = 1
    /\ unreadable = {}
    /\ hist.toolFailed = {}
    /\ ~hist.lost

\* C14: over a source tree that holds one archive with one image and one
\* text file, a successful run ends with 1 row in str_index, 1 row in
\* dds_index, 1 row in other_files_index, 2 container edges, one for each
\* member, and no row in any other table.
C14_ImageAndTextScenario ==
    (tree = TreeImageText /\ FirstRunSucceeded) =>
        /\ Counts = [t \in FileTables \cup RelTables |->
                        IF t \in {"str_index", "dds_index", "other_files_index"} THEN 1
                        ELSE IF t = "str_content_relationship" THEN 2
                        ELSE 0]
        /\ \A m \in OutFiles(ArchiveC, "full") :
              \E e \in rels["str_content_relationship"] :
                 /\ e.str_uuid = KeyOf(ArchiveC)
                 /\ e.content_file_uuid = KeyOf(m)
                 /\ e.content_file_table = get_table_name_for_ext(m.ext)

\* the run over that tree is done, having met contention on the way
C14_Witness ==
    /\ tree = TreeImageText
    /\ FirstRunSucceeded
    /\ hist.contended = 1
    /\ \A i \in Images : decode[i] = "ok"

\* the export edges that link the export x to the scene source b
ExportEdges(x, b) ==
    {e \in rels["model_export_blend_relationship"] :
        /\ e.exported_model_uuid = KeyOf(x)
        /\ e.exported_model_table = get_table_name_for_ext(x.ext)
        /\ e.blend_uuid = KeyOf(b)}

\* C15: over a source tree that holds one archive with a scene source and
\* an export of it (.glb or .fbx) at the same relative path, a successful
\* run ends with the 2 member rows, the 2 container edges and exactly 1
\* export edge, which links the two members.
C15_SourceAndExportScenario ==
    (tree \in TreePair /\ FirstRunSucceeded) =>
        \A a \in tree :
        \E b, x \in OutFiles(a, "full") :
            /\ b.ext = "blend" /\ x.ext \in {"glb", "fbx"}
            /\ Counts = [t \in FileTables \cup RelTables |->
                            IF t \in {"str_index", "blend_index", get_table_name_for_ext(x.ext),
                                      "model_export_blend_relationship"} THEN 1
                            ELSE IF t = "str_content_relationship" THEN 2
                            ELSE 0]
            /\ RowOf("blend_index", b) # {}
            /\ RowOf(get_table_name_for_ext(x.ext), x) # {}
            /\ \A m \in {b, x} : \E e \in rels["str_content_relationship"] :
                  e.str_uuid = KeyOf(a) /\ e.content_file_uuid = KeyOf(m)
            /\ Cardinality(ExportEdges(x, b)) = 1

\* the run over the tree with the .fbx export is done
C15_Witness ==
    /\ tree = {ArchiveX}
    /\ FirstRunSucceeded
    /\ Cardinality(rels["model_export_blend_relationship"]) = 1
    /\ Cardinality(tables["fbx_index"]) = 1

\* the entry y of extracted_content_map lies at the path of the export x
\* with the extension replaced by .blend
AtSubstitutedPath(x, y) ==
    /\ x.ext \in {"glb", "fbx"}
    /\ y.ext = "blend"
    /\ y.rel.dir = x.rel.dir
    /\ y.rel.stem = x.rel.stem
    /\ y.rel.ext = "blend"

\* the export edges of r that link the entries x and y
EdgesOf(r, x, y) ==
    {e \in r["model_export_blend_relationship"] :
        e.exported_model_uuid = x.uuid /\ e.blend_uuid = y.uuid}

\* C16: process_relationships_in_extracted_dir records an export edge only
\* for two files of the extraction whose relative paths are equal once the
\* export's extension is replaced by .blend: every edge it adds links such
\* a pair, each such pair has exactly one edge when no statement was lost,
\* and files that share only the base name (another directory, or the
\* source's extension written in another letter case) get none.
C16_PairsOnlyExactMatches ==
    [][phase = "RelatingExtraction" =>
          /\ \A e \in rels'["model_export_blend_relationship"] \ rels["model_export_blend_relationship"] :
                \E x, y \in details : AtSubstitutedPath(x, y) /\ e \in EdgesOf(rels', x, y)
          /\ \A x, y \in details :
                /\ (AtSubstitutedPath(x, y) /\ ~hist'.lost) => Cardinality(EdgesOf(rels', x, y)) = 1
                /\ ~AtSubstitutedPath(x, y) => EdgesOf(rels', x, y) = EdgesOf(rels, x, y)]_vars

\* the run over the archive with a/b.blend, a/b.GLB and c/b.glb is done:
\* three member rows and one export edge
C16_Witness ==
    /\ tree = {ArchiveD}
    /\ FirstRunSucceeded
    /\ Cardinality(tables["blend_index"]) = 1
    /\ Cardinality(tables["glb_index"]) = 2
    /\ Cardinality(rels["model_export_blend_relationship"]) = 1

\* C17 as stated: every export edge of the catalog links two files of the
\* extraction output of one archive; files at matching relative paths in the
\* outputs of two archives, or in the source tree, are not paired.
C17_PairingWithinOneExtraction ==
    /\ \A e \in rels["model_export_blend_relationship"] :
          \E a \in Archives : \E x, b \in OutFiles(a, "full") :
             e.exported_model_uuid = KeyOf(x) /\ e.blend_uuid = KeyOf(b)
    /\ tree = TreeCross => rels["model_export_blend_relationship"] = {}

\* the run over m.blend, E.str (m.blend) and F.str (m.glb) is done: both
\* scene sources and the export are cataloged, the extractions were related
C17_Witness ==
    /\ tree = TreeCross
    /\ FirstRunSucceeded
    /\ Cardinality(tables["blend_index"]) = 2
    /\ Cardinality(tables["glb_index"]) = 1
    /\ hist.visited = {ArchiveE, ArchiveF}

\* Pass 1 ends in this step
Pass1Complete == phase = "ScanningRoot" /\ phase' # "ScanningRoot"

\* table t holds a row for the location of the source file f
LocatedIn(t, f) == \E r \in tables[t] : r.source_path = get_relative_path(f, "src")

FileRows == UNION {tables[t] : t \in FileTables}

\* C19: the key of every row of every category table is made of the first
\* 16 characters of the row's content digest and the first 16 characters of
\* its path digest, the path digest being the digest of the row's location;
\* two rows with the same content digest and the same location have the same
\* key, in one run and across runs, and the key handed to the walk for an
\* archive is the key of the row at the archive's location.
C19_KeyFromDigests ==
    /\ \A r \in FileRows :
          /\ r.uuid = <<r.file_hash[1], r.path_hash[1]>>
          /\ r.path_hash = md5_string(r.source_path)
    /\ \A r1, r2 \in FileRows :
          (r1.file_hash = r2.file_hash /\ r1.source_path = r2.source_path) => r1.uuid = r2.uuid
    /\ parent_str_uuid # None =>
          \E r \in tables["str_index"] :
             r.uuid = parent_str_uuid /\ r.source_path = get_relative_path(cur, "src")

\* a second run over the unchanged tree is done, nothing having failed in
\* either run: every file on disk has a row with the key of its bytes and
\* location
C19_Witness ==
    /\ phase = "Done" /\ run = 2
    /\ hist.prevDone /\ ~hist.changed
    /\ ~hist.lost /\ ~hist.prevLost
    /\ unreadable = {} /\ hist.toolFailed = {}
    /\ \A f \in DiskFiles : \E r \in FileRows :
          r.source_path = get_relative_path(f, BaseOf(f)) /\ r.uuid = KeyOf(f)

\* the edges of r from the dictionary f to the image g
DictionaryEdges(r, f, g) ==
    {e \in r["txd_dds_relationship"] : e.txd_uuid = KeyOf(f) /\ e.dds_uuid = KeyOf(g)}

\* C20: in the step in which the walk yields a texture dictionary and
\* index_txd_file runs on it: when the dictionary has its row afterwards (no
\* statement of the run being abandoned on a locked datastore), every image
\* of its sibling folder that can be read has a row in dds_index, decodable
\* or not, and exactly one edge from the dictionary, and an image that
\* cannot be read has neither; when the dictionary has no row afterwards the
\* step has changed no table and no edge table; every dictionary edge links
\* the key of a txd_index row to the key of a dds_index row.
C20_DictionaryThenSiblingImages ==
    [][\A f \in Walked :
          lower(f.ext) = "txd" =>
             /\ (LocatedIn("txd_index", f)' /\ ~hist'.lost) =>
                   \A g \in SiblingImages(f) :
                      IF g \in unreadable
                          THEN ~HasRow(g)' /\ DictionaryEdges(rels', f, g) = {}
                          ELSE /\ RowOf("dds_index", g)' # {}
                               /\ Cardinality(DictionaryEdges(rels', f, g)) = 1
             /\ ~LocatedIn("txd_index", f)' => tables' = tables /\ rels' = rels
             /\ \A e \in rels'["txd_dds_relationship"] :
                   /\ \E r \in tables'["txd_index"] : r.uuid = e.txd_uuid
                   /\ \E r \in tables'["dds_index"] : r.uuid = e.dds_uuid]_vars

\* the first run over t.txd, t_txd/i.dds and t_txd/j.dds is done, j.dds
\* being undecodable: the dictionary, both images and both edges are there
C20_Witness ==
    /\ tree = TreeDictionary
    /\ FirstRunSucceeded
    /\ decode[FileJ] = "unidentified"
    /\ Cardinality(tables["txd_index"]) = 1
    /\ Cardinality(tables["dds_index"]) = 2
    /\ Cardinality(DictionaryEdges(rels, FileT, FileI)) = 1
    /\ Cardinality(DictionaryEdges(rels, FileT, FileJ)) = 1

\* the call returned None (insert_file_entry) or False (insert_relationship_entry)
Failed(call) ==
    IF call.op = "insert_file_entry" THEN call.ret = None ELSE call.ret = FALSE

\* C21: when insert_file_entry or insert_relationship_entry returns, the
\* connection holds no uncommitted write; a call that returns None or False,
\* or that met a constraint, leaves every table and edge table as it was;
\* no call removes or changes a row that was there before it.
C21_InsertsCommitAlone ==
    [][lastCall'.n = lastCall.n + 1 =>
          /\ lastCall'.pending = {}
          /\ ~lastCall'.raised
          /\ (Failed(lastCall') \/ lastCall'.log = <<>>
                 \/ Final(lastCall'.log[1]) # "none") =>
                (tables' = tables /\ rels' = rels)
          /\ \A t \in DOMAIN tables : tables[t] \subseteq tables'[t]
          /\ \A t \in DOMAIN rels : rels[t] \subseteq rels'[t]]_vars

\* an INSERT was abandoned on a locked datastore after rows and an edge
\* had been committed by earlier calls: they are all still there
C21_Witness ==
    /\ lastCall.n >= 3
    /\ Failed(lastCall)
    /\ lastCall.log # <<>>
    /\ Final(lastCall.log[1]) = "locked"
    /\ lastCall.pending = {}
    /\ \E t \in DOMAIN tables : tables[t] # {}
    /\ \E t \in DOMAIN rels : rels[t] # {}

\* the extensions classification is checked on: the listed ones, the empty
\* one, unlisted ones, and unlisted ones that spell a key of specific_mappings
Extensions == DOMAIN EXT_GROUPS \cup {"", "xyz", "BLEND", "other", "unknown", "models_blend"}

\* C22 as stated: for every extension get_table_name_for_ext returns a table
\* that initialize_database creates; a listed extension maps to the table of
\* its category and an unlisted one to unknown_files_index; the group_name
\* stored in a row is the category of the table that holds the row.
C22_ClassificationTotalConsistent ==
    /\ \A e \in Extensions :
          /\ get_table_name_for_ext(e) \in FileTables
          /\ lower(e) \in DOMAIN EXT_GROUPS =>
                get_table_name_for_ext(e) = specific_mappings[EXT_GROUPS[lower(e)]]
          /\ lower(e) \notin DOMAIN EXT_GROUPS =>
                get_table_name_for_ext(e) = specific_mappings["unknown"]
    /\ \A t \in DOMAIN tables : \A r \in tables[t] :
          r.group_name \in DOMAIN specific_mappings /\ t = specific_mappings[r.group_name]

\* what holds of classification: the same, except that an unlisted extension
\* that spells a key of specific_mappings maps to the table of that key, and
\* the row of a file with such an extension is labelled unknown
C22_ExceptMappingKeys ==
    /\ \A e \in Extensions :
          /\ get_table_name_for_ext(e) \in FileTables
          /\ lower(e) \in DOMAIN EXT_GROUPS =>
                get_table_name_for_ext(e) = specific_mappings[EXT_GROUPS[lower(e)]]
          /\ lower(e) \notin DOMAIN EXT_GROUPS \cup DOMAIN specific_mappings =>
                get_table_name_for_ext(e) = specific_mappings["unknown"]
          /\ (lower(e) \in DOMAIN specific_mappings \ DOMAIN EXT_GROUPS) =>
                get_table_name_for_ext(e) = specific_mappings[lower(e)]
    /\ \A t \in DOMAIN tables : \A r \in tables[t] :
          IF lower(r.source_file_name[2]) \in DOMAIN specific_mappings \ DOMAIN EXT_GROUPS
              THEN /\ r.group_name = "unknown"
                   /\ t = specific_mappings[lower(r.source_file_name[2])]
              ELSE r.group_name \in DOMAIN specific_mappings /\ t = specific_mappings[r.group_name]

\* the phases in which a container is being processed
ContainerPhases == {"Cataloged", "IndexingExtraction", "RelatingExtraction"}

\* the phases that may follow a phase in one step of a run
Successors ==
    ("ScanningRoot" :> {"ScanningRoot", "ScanningContainers", "Done"}) @@
    ("ScanningContainers" :> {"ScanningContainers", "Cataloged", "Done"}) @@
    ("Cataloged" :> {"IndexingExtraction", "ScanningContainers", "Done", "Aborted"}) @@
    ("IndexingExtraction" :> {"IndexingExtraction", "RelatingExtraction"}) @@
    ("RelatingExtraction" :> {"ScanningContainers", "Done"})

\* C23: the steps of a run follow the state machine.  No archive is
\* cataloged, extracted or walked while Pass 1 has root files left; for one
\* archive the steps are catalog, then extract or skip, then one step for
\* each file of its output, then relate; the relating step comes after the
\* last file of the output, once for an archive in a run; no other archive
\* is cataloged and no archive's directory changes but the current one's
\* while an archive is being processed.
C23_StateMachineOrder ==
    [][/\ phase \in DOMAIN Successors => phase' \in Successors[phase]
       /\ phase' \in ContainerPhases \cup {"ScanningContainers"} => todo' = {}
       /\ phase = "ScanningRoot" =>
             /\ tables'["str_index"] = tables["str_index"]
             /\ outdir' = outdir /\ hist'.invoked = hist.invoked /\ hist'.visited = {}
       /\ phase' \in ContainerPhases => (cur' \in Archives /\ cur' \in hist'.visited)
       /\ phase \in ContainerPhases =>
             /\ hist'.visited = hist.visited
             /\ \A a \in Archives \ {cur} : outdir'[a] = outdir[a]
             /\ phase' \in ContainerPhases => cur' = cur
       /\ phase = "IndexingExtraction" =>
             /\ Walked # {} /\ Walked \subseteq OutFiles(cur, outdir[cur])
             /\ outdir' = outdir
       /\ phase' = "IndexingExtraction" => todoOut' # {}
       /\ phase = "RelatingExtraction" =>
             /\ todoOut = {}
             /\ \A i \in 1..Len(hist.related) : hist.related[i] # cur
             /\ hist'.related = Append(hist.related, cur)
       /\ phase # "RelatingExtraction" =>
             (hist'.related = hist.related \/ (phase' = "ScanningRoot" /\ hist'.related = <<>>))
       /\ phase # "IndexingExtraction" => (todoOut' = {} \/ phase = "Cataloged")]_vars

\* a run over the whole tree is done in which both archives were cataloged,
\* extracted, walked and related, one after the other
C23_Witness ==
    /\ tree = SrcTree /\ phase = "Done"
    /\ Len(hist.related) = 2
    /\ hist.visited = Archives /\ hist.invoked = Archives /\ hist.indexedFrom = Archives

\* the catalog holds a row for a file in the output of archive a, or an edge
\* that names the key of such a file
ContentCataloged(a) ==
    \E st \in {"partial", "full"} : \E m \in OutFiles(a, st) : HasRow(m) \/ Named(KeyOf(m))

\* C24 as stated: in every state, after any number of runs, the catalog holds
\* member rows or container edges for an archive only if the tool exited
\* with zero for that archive.
C24_ContentOnlyFromSuccessfulExtraction ==
    \A a \in Archives : ContentCataloged(a) => toolOutcome[a] = "ok"

\* what holds in its place: the content of an archive for which the tool
\* fails is cataloged only in a later run and only from the files the failed
\* extraction left in the output directory; the run in which the tool fails
\* goes on to the next archive without walking the output.
C24_NotInTheFailingRun ==
    [][/\ \A a \in Archives :
             (ContentCataloged(a)' /\ toolOutcome[a] # "ok") =>
                (run >= 2 /\ outdir[a] = "partial" /\ a \notin hist'.invoked)
       /\ (phase = "Cataloged" /\ cur \in hist'.toolFailed) =>
             phase' \notin {"IndexingExtraction", "RelatingExtraction"}]_vars

(***************************************************************************)
(* C25: the retry of a failed extraction                                   *)
(***************************************************************************)
\* the rows of str_index at the location of archive a
ContainerRows(a) == RowFor("str_index", get_relative_path(a, "src"))

\* C25: on a run after the first, an archive whose earlier extraction failed
\* and whose output directory is absent or empty is extracted again (the
\* tool is invoked unless the executable is missing or cannot be started);
\* the rows of str_index are never removed or changed and no location ever
\* has two of them, so the archive keeps the one container row of the
\* earlier run; and every container edge written while the output of the
\* retried extraction is walked carries the identity key of that row.
C25_RetryKeepsContainerRow ==
    [][/\ tables["str_index"] \subseteq tables'["str_index"]
       /\ \A a \in Archives : Cardinality(ContainerRows(a)') <= 1
       /\ (run >= 2 /\ phase = "ScanningContainers" /\ phase' = "Cataloged"
              /\ ContainerRows(cur') # {}) =>
             \A r \in ContainerRows(cur') : parent_str_uuid' = r.uuid
       /\ (run >= 2 /\ phase = "Cataloged" /\ cur \in hist.prevFailed
              /\ OutFiles(cur, outdir[cur]) = {}) =>
             \/ cur \in hist'.invoked
             \/ toolOutcome[cur] \in {"missing", "oserror"}
       /\ (run >= 2 /\ phase = "IndexingExtraction" /\ cur \in hist.prevFailed) =>
             \A e \in rels'["str_content_relationship"] \ rels["str_content_relationship"] :
                \E r \in ContainerRows(cur) :
                   /\ e.str_uuid = r.uuid
                   /\ r \in tables'["str_index"]]_vars

\* a second run has finished in which the tool was invoked again for an
\* archive whose extraction failed in the first run, the archive has one
\* container row and both of its members hang from it.
C25_Witness ==
    /\ run = 2 /\ phase = "Done"
    /\ ArchiveA \in hist.prevFailed /\ ArchiveA \in hist.invoked
    /\ ArchiveA \in hist.indexedFrom
    /\ \E r \in ContainerRows(ArchiveA) :
          Cardinality({e \in rels["str_content_relationship"] : e.str_uuid = r.uuid}) = 2

(***************************************************************************)
(* C26: an edge for every match                                            *)
(***************************************************************************)
\* the rows of relationship table t, none when the catalog has no such table
EdgeRows(r, t) == IF t \in DOMAIN r THEN r[t] ELSE {}

\* C26 as stated: when process_relationships_in_extracted_dir returns and no
\* statement was lost to a locked database, the catalog holds an edge for
\* every pair it detected: scene source and preinstanced source, export
\* and scene source, sound source and .wav.
C26_EveryMatchRecorded ==
    [][(phase = "RelatingExtraction" /\ ~hist'.lost) =>
          /\ \A p \in Matches(details, "blend", "preinstanced") :
                \E e \in EdgeRows(rels', "blend_preinstanced_relationship") :
                   e.blend_uuid = p[1].uuid /\ e.preinstanced_uuid = p[2].uuid
          /\ \A p \in Matches(details, "glb", "blend") \cup Matches(details, "fbx", "blend") :
                \E e \in EdgeRows(rels', "model_export_blend_relationship") :
                   e.exported_model_uuid = p[1].uuid /\ e.blend_uuid = p[2].uuid
          /\ \A p \in Matches(details, "snu", "wav") :
                \E e \in EdgeRows(rels', "snu_wav_relationship") :
                   e.snu_uuid = p[1].uuid /\ e.wav_uuid = p[2].uuid]_vars

\* what holds in its place: the pairs whose table create_relationship_tables
\* creates get their edge, and a detected pair of sound source and .wav
\* leaves the catalog without any edge between the two.
C26_ExceptSoundPairs ==
    [][(phase = "RelatingExtraction" /\ ~hist'.lost) =>
          /\ \A p \in Matches(details, "blend", "preinstanced") :
                \E e \in EdgeRows(rels', "blend_preinstanced_relationship") :
                   e.blend_uuid = p[1].uuid /\ e.preinstanced_uuid = p[2].uuid
          /\ \A p \in Matches(details, "glb", "blend") \cup Matches(details, "fbx", "blend") :
                \E e \in EdgeRows(rels', "model_export_blend_relationship") :
                   e.exported_model_uuid = p[1].uuid /\ e.blend_uuid = p[2].uuid
          /\ Matches(details, "snu", "wav") # {} =>
                /\ "snu_wav_relationship" \notin DOMAIN rels'
                /\ rels' = rels]_vars

(***************************************************************************)
(* C27: only the archives of the source tree are extracted                 *)
(***************************************************************************)
\* the container files an extraction of archive a yields
InnerContainers(a) == {m \in OutFiles(a, "full") : lower(m.ext) = "str"}

\* C27: the tool is invoked only in the extraction step of Pass 2 and only
\* for an archive of the source tree; cataloging a container, in Pass 2 or
\* in the walk of an extraction output, leaves every output directory as it
\* is; a container file found in an extraction output gets a row in
\* str_index and a container edge from its parent archive (unless the
\* statement is lost to a locked database or the file cannot be read), and
\* the tool is never invoked on it.
C27_OnlySourceArchivesExtracted ==
    [][/\ \A a \in hist'.invoked : a \in tree /\ a.root = "src"
       /\ todoStr' \subseteq tree
       /\ \A a \in Archives : InnerContainers(a) \cap (hist'.invoked \cup todoStr') = {}
       /\ phase # "Cataloged" => (outdir' = outdir /\ hist'.invoked \subseteq hist.invoked)
       /\ phase = "Cataloged" => (\A a \in DOMAIN outdir : a # cur => outdir'[a] = outdir[a])
                                  /\ hist'.invoked \subseteq hist.invoked \cup {cur}
       /\ (phase = "IndexingExtraction" /\ ~hist'.lost) =>
             \A f \in (todoOut \ todoOut') \cap InnerContainers(cur) :
                f \notin unreadable =>
                   \E r \in tables'["str_index"] :
                      /\ r.source_path = get_relative_path(f, "out")
                      /\ \E e \in rels'["str_content_relationship"] :
                            /\ e.str_uuid = parent_str_uuid
                            /\ e.content_file_uuid = r.uuid
                            /\ e.content_file_table = "str_index"]_vars

\* the run over the archive that holds q.str and n.txt is done: str_index
\* has the rows of the archive and of the container inside it, the inner
\* one hangs from the outer one and the tool ran for the outer one only
C27_Witness ==
    /\ tree = TreeNested /\ phase = "Done"
    /\ hist.invoked = {ArchiveP}
    /\ Cardinality(tables["str_index"]) = 2
    /\ \E e \in rels["str_content_relationship"] :
          /\ e.content_file_table = "str_index"
          /\ e.str_uuid = KeyOf(ArchiveP)
          /\ e.content_file_uuid =
                KeyOf(OutFile(ArchiveP, [dir |-> <<>>, stem |-> "q", ext |-> "str"]))

(***************************************************************************)
(* C28: referential integrity of the edges                                 *)
(***************************************************************************)
\* the keys of the rows of file table t, none when there is no such table
KeysIn(t) == IF t \in DOMAIN tables THEN {r.uuid : r \in tables[t]} ELSE {}

\* C28: in every reachable state each container edge names a key of
\* str_index and a key of the table its content_file_table names, each
\* dictionary edge a key of txd_index and a key of dds_index, each edge of a
\* scene source a key of blend_index and a key of preinstanced_index, and
\* each export edge a key of the table its exported_model_table names and a
\* key of blend_index.
C28_EdgesNameExistingRows ==
    /\ \A e \in rels["str_content_relationship"] :
          e.str_uuid \in KeysIn("str_index") /\ e.content_file_uuid \in KeysIn(e.content_file_table)
    /\ \A e \in rels["txd_dds_relationship"] :
          e.txd_uuid \in KeysIn("txd_index") /\ e.dds_uuid \in KeysIn("dds_index")
    /\ \A e \in rels["blend_preinstanced_relationship"] :
          e.blend_uuid \in KeysIn("blend_index") /\ e.preinstanced_uuid \in KeysIn("preinstanced_index")
    /\ \A e \in rels["model_export_blend_relationship"] :
          /\ e.exported_model_uuid \in KeysIn(e.exported_model_table)
          /\ e.exported_model_table \in {"glb_index", "fbx_index"}
          /\ e.blend_uuid \in KeysIn("blend_index")

\* a second run is done after a file of the source tree was modified, and
\* the catalog holds container edges, a dictionary edge and an export edge
C28_Witness ==
    /\ run = 2 /\ phase = "Done" /\ hist.changed
    /\ Cardinality(rels["str_content_relationship"]) >= 3
    /\ rels["txd_dds_relationship"] # {}
    /\ rels["model_export_blend_relationship"] # {}

(***************************************************************************)
(* C29: the order of the walk                                              *)
(***************************************************************************)
FreshContext(db) == [db |-> db, lock |-> NoLock, log |-> <<>>, pending |-> {}]

\* the Pass 1 loop over `files`, the walk yielding them in one fixed order
RECURSIVE Pass1InOrder(_, _)
Pass1InOrder(db, files) ==
    IF files = {} THEN db
    ELSE LET f == CHOOSE g \in files : TRUE IN
         IF lower(f.ext) \in {"", "str"} THEN Pass1InOrder(db, files \ {f})
         ELSE CHOOSE d \in
                 {Pass1InOrder(r.ctx.db, files \ {f}) :
                     r \in {IndexByExt(FreshContext(db), f, get_relative_path(f, "src"), "src")}} : TRUE

\* the walk of the output of archive a over `files` in one fixed order,
\* then the relationships of the extraction
RECURSIVE WalkInOrder(_, _, _, _, _)
WalkInOrder(db, map, a, parent, files) ==
    IF files = {} THEN process_relationships_in_extracted_dir(FreshContext(db), map).db
    ELSE LET f == CHOOSE g \in files : TRUE IN
         IF lower(f.ext) = "" THEN WalkInOrder(db, map, a, parent, files \ {f})
         ELSE CHOOSE d \in UNION
                 {{WalkInOrder(c.db,
                      IF r.ret = None THEN map
                      ELSE {e \in map : ~(e.ext = lower(f.ext) /\ e.rel = RelWithin(f, a))}
                              \cup {[ext |-> lower(f.ext), rel |-> RelWithin(f, a), uuid |-> r.ret]},
                      a, parent, files \ {f}) :
                      c \in {IF r.ret # None
                                THEN add_str_content_relationship(r.ctx, parent, r.ret,
                                                                  get_table_name_for_ext(f.ext))
                                ELSE r.ctx}} :
                   r \in {IndexByExt(FreshContext(db), f, get_relative_path(f, "out"), "out")}} : TRUE

\* the Pass 2 loop over `archives` in one fixed order; the output of an
\* archive is walked when its extraction succeeded
RECURSIVE Pass2InOrder(_, _)
Pass2InOrder(db, archives) ==
    IF archives = {} THEN db
    ELSE LET a == CHOOSE b \in archives : TRUE
             files == IF a \in hist.toolFailed THEN {} ELSE OutFiles(a, outdir[a])
         IN  CHOOSE d \in
                {Pass2InOrder(IF r.ret = None \/ files = {} THEN r.ctx.db
                              ELSE WalkInOrder(r.ctx.db, {}, a, r.ret, files),
                              archives \ {a}) :
                    r \in {index_str_archive(FreshContext(db), a, get_relative_path(a, "src"))}} : TRUE

\* the catalog without the AUTOINCREMENT column of its rows
WithoutIds(db) ==
    [tables |-> [t \in DOMAIN db.tables |->
                    {[c \in DOMAIN r \ {"id"} |-> r[c]] : r \in db.tables[t]}],
     rels |-> [t \in DOMAIN db.rels |->
                    {[c \in DOMAIN r \ {"id"} |-> r[c]] : r \in db.rels[t]}]]

\* C29: whatever the order in which Pass 1 yields the files of the source
\* tree, Pass 2 the archives and the walk of each extraction output its
\* files, a first run that ends without a statement lost to a locked
\* datastore, seen before any file is modified, leaves the file rows and edge rows (their AUTOINCREMENT id
\* apart) that the run over one fixed order leaves, and every image that can
\* be read, the images of the sibling folder of a dictionary among them, has
\* exactly one row.
C29_CatalogIndependentOfOrder ==
    (phase = "Done" /\ run = 1 /\ ~hist.lost /\ ~hist.pending) =>
        /\ WithoutIds(Db) = WithoutIds(Pass2InOrder(Pass1InOrder(EmptyDb, tree), Archives))
        /\ \A g \in Images \cap DiskFiles :
              (g.root = "src" \/ \E a \in Archives \ hist.toolFailed : g \in OutFiles(a, outdir[a]))
                 => Cardinality(RowOf("dds_index", g)) = IF g \in unreadable THEN 0 ELSE 1

\* the first run over t.txd, t_txd/i.dds and t_txd/j.dds is done, in an
\* order in which i.dds was not the first image to get its row: both images
\* have one row and one edge from the dictionary
C29_Witness ==
    /\ tree = TreeDictionary
    /\ FirstRunSucceeded /\ ~hist.pending
    /\ decode[FileI] = "ok" /\ decode[FileJ] = "ok"
    /\ \E r \in RowOf("dds_index", FileI) : r.id = 2
    /\ Cardinality(RowOf("dds_index", FileJ)) = 1
    /\ Cardinality(rels["txd_dds_relationship"]) = 2

(***************************************************************************)
(* C30: distinct files, distinct rows                                      *)
(***************************************************************************)
\* the files on disk, under either root, that the row r of table t can stand
\* for: those classified into t whose location is the row's
StandsFor(t, r) ==
    {f \in DiskFiles : /\ get_table_name_for_ext(f.ext) = t
                      /\ get_relative_path(f, BaseOf(f)) = r.source_path}

\* C30 as stated: in every reachable state each row stands for one file
\* only, so that a file under the source root and a file under the output
\* root never resolve to the same row, and every container edge links an
\* archive to the row of a file the extraction of that archive produces.
C30_DistinctFilesDistinctRows ==
    /\ \A t \in DOMAIN tables : \A r \in tables[t] : Cardinality(StandsFor(t, r)) <= 1
    /\ \A e \in rels["str_content_relationship"] :
          \E a \in Archives : \E m \in OutFiles(a, "full") :
             /\ e.str_uuid = KeyOf(a)
             /\ e.content_file_uuid = KeyOf(m)

\* what holds in its place: each row stands for one file only except where
\* a file of the source tree and a file of an extraction output have the
\* same location string and the same table; there the row is that of the
\* file indexed first, and the container edge of the archive names it.
C30_ExceptSharedLocations ==
    /\ \A t \in DOMAIN tables : \A r \in tables[t] :
          \A f, g \in StandsFor(t, r) : f # g => f.root # g.root
    /\ \A e \in rels["str_content_relationship"] :
          \E a \in Archives : \E m \in OutFiles(a, "full") :
             /\ e.str_uuid = KeyOf(a)
             /\ \E r \in tables[e.content_file_table] :
                   r.uuid = e.content_file_uuid /\ m \in StandsFor(e.content_file_table, r)

\* what holds of C17: on every tree in which no file of the source tree has
\* the location of a member of an archive, each export edge links two files
\* of the output of one archive.
C17_ExceptSharedLocations ==
    (\A f \in tree : \A a \in Archives : \A m \in OutFiles(a, "full") :
        get_relative_path(f, "src") # get_relative_path(m, "out"))
      => C17_PairingWithinOneExtraction

====
